---- MODULE Spec2Model ----
(***************************************************************************)
(* A model of the nrfcomm radio link: the Frame codec (protocol package),  *)
(* the Transmitter and the Receiver (transport package) and the host-side  *)
(* radio drivers they talk through.                                        *)
(*                                                                         *)
(* 32-bit unsigned values (device identities, sequence numbers, pairing    *)
(* keys, CRCs) are records [hi, lo] of two 16-bit halves, so that the      *)
(* arithmetic modulo 2^32 of the Go code is exact.  Byte buffers are       *)
(* sequences of numbers 0..255; Go's 0-based offset k is index k+1.        *)
(***************************************************************************)
EXTENDS Integers, Sequences, FiniteSets, TLC

VARIABLES
    cFrame,     \* codec: the Frame whose pointer is handed to EncodeFrame, as it is now
    cGiven,     \* codec, history: that Frame as it was before the call
    cWire,      \* codec: the byte buffer (EncodeFrame's result, possibly damaged)
    cOut,       \* codec: DecodeFrame's result
    cPc,        \* codec: "start" | "encoded" | "damaged" | "decoded"
    cHow,       \* codec: how cWire was obtained: "clean" | "crcflip" | "term" | "short" | "other" | "raw"
    txPaired,   \* Transmitter.device.IsPaired
    txSeq,      \* Transmitter.seq
    txReceiver, \* Transmitter.receiver
    txKey,      \* Transmitter.pairingKey
    txLog,      \* the transmitter's driver: buffers handed to Tx and not yet forwarded
    txRxQ,      \* the transmitter's driver: buffers waiting for Rx
    txOp,       \* the Transmitter call in progress (StartPairing, SendDataReliable) and its locals
    txRes,      \* what the last Transmitter call returned; "pending" while it runs
    txCall,     \* history: the last call, its arguments and the state it was made in
    txTag,      \* history: for each buffer ever handed to Tx, the call that sent it
    txRcvd,     \* history: the buffers Rx returned to the call in progress, with the attempt
    peerSent,   \* how many buffers the peer has put on the air
    linked,     \* TRUE when the two drivers are wired together (ConnectDrivers)
    fwd,        \* the goroutine of ConnectDrivers: where it is, and its local txLog
    rxId,       \* Receiver.device.ID
    rxReg,      \* Receiver.pairedDevices: identity -> [PairingKey, IsPaired, LastSeen]
    rxListening,\* Receiver.isListening
    rxLog,      \* the receiver's driver: buffers handed to Tx and not yet forwarded
    rxRxQ,      \* the receiver's driver: buffers waiting for Rx
    rxAcks,     \* the Ack goroutines ProcessPacket has started and that have not run yet
    now,        \* time.Now().UnixMilli()
    taskOn,     \* TRUE once StartCleanupTask has been called
    taskWake,   \* the time at which the cleanup task's current Sleep ends
    rxBeat,     \* the goroutine of Receiver.StartHeartbeatTask: started or not, and
                \* the time at which its current Sleep ends
    silent,     \* the peer devices that have stopped sending
    rxLastOp,   \* history: the last Receiver operation that ran
    rxPre,      \* history: the registry and the clock that the last CleanupDeadDevices started from
    rxCallback, \* Receiver.callbacks[PacketTypeData]: "none", or what the callback does
    rxCbCalls,  \* the callback invocations made by the last ProcessPacket
    rxBlocked,  \* TRUE when a goroutine waits for Receiver.mu while holding it: the mutex
                \* is never released again
    rxRecv,     \* the ReceiveData call in progress and what the last one returned
    rxLast,     \* history: the last packet processed and the state it was processed in
    rxLoops,    \* the goroutines Listen has started, by where they are in their loop
    rxPair,     \* the Receiver.StartPairing call in progress and what the last one returned
    rxHeld,     \* the *Device pointers the application got from GetPairedDevices
    txGo,       \* the goroutines inside Transmitter.SendFrame, statement by statement
    rxAccepted, \* history: the buffers whose Data packet ProcessPacket accepted
    rxAccess,   \* history: the last public operation of the Receiver, the lock operations and
                \* the accesses to pairedDevices and callbacks it made, in program order,
                \* and what a query returned
    rbData,     \* ringBuffer.data
    rbHead,     \* ringBuffer.head
    rbTail,     \* ringBuffer.tail
    rbCount,    \* ringBuffer.count
    rbPushed,   \* history: how many frames have been pushed
    rbKept,     \* history: the frames a bounded FIFO that drops its oldest entry would hold
    rbOut       \* history: the last ring buffer operation and what it returned

codecVars == <<cFrame, cGiven, cWire, cOut, cPc, cHow>>

txVars == <<txPaired, txSeq, txReceiver, txKey, txLog, txRxQ, txOp, txRes, txCall, txTag, txRcvd>>

appVars == <<rxCallback, rxCbCalls, rxBlocked, rxRecv, rxLast, rxLoops, rxPair, rxHeld>>

callVars == <<rxCallback, rxCbCalls, rxBlocked, rxRecv, rxLast, rxLoops, rxPair>>

rxVars == <<rxId, rxReg, rxListening, rxLog, rxRxQ, rxAcks, taskOn, taskWake, rxLastOp, rxPre,
            rxCallback, rxCbCalls, rxBlocked, rxRecv, rxLast, rxLoops, rxPair, rxHeld>>

envVars == <<peerSent, linked, fwd, now, silent>>

\* the parts that only the specifications written for them move
ringVars == <<rbData, rbHead, rbTail, rbCount, rbPushed, rbKept, rbOut>>

otherVars == <<txGo, rxAccepted, rxAccess, rxBeat, ringVars>>

vars == <<cFrame, cGiven, cWire, cOut, cPc, cHow,
          txPaired, txSeq, txReceiver, txKey, txLog, txRxQ, txOp, txRes, txCall, txTag, txRcvd,
          rxId, rxReg, rxListening, rxLog, rxRxQ, rxAcks, taskOn, taskWake, rxLastOp, rxPre,
          rxCallback, rxCbCalls, rxBlocked, rxRecv, rxLast, rxLoops, rxPair, rxHeld,
          peerSent, linked, fwd, now, silent,
          txGo, rxAccepted, rxAccess, rxBeat,
          rbData, rbHead, rbTail, rbCount, rbPushed, rbKept, rbOut>>

----------------------------------------------------------------------------
(* 32-bit unsigned arithmetic                                              *)

U32(hi, lo) == [hi |-> hi, lo |-> lo]

Zero32 == U32(0, 0)

\* x + 1 on a uint32 (t.seq++), wrapping to 0 after 0xFFFFFFFF
Inc32(x) ==
    IF x.lo = 65535
    THEN U32((x.hi + 1) % 65536, 0)
    ELSE U32(x.hi, x.lo + 1)

\* binary.LittleEndian.PutUint32: the 4 bytes of x, least significant first
PutUint32(x) == <<x.lo % 256, x.lo \div 256, x.hi % 256, x.hi \div 256>>

\* a big-endian read, as binary.BigEndian.Uint32 would do
Uint32BE(b) == U32(b[2] + 256 * b[1], b[4] + 256 * b[3])

\* binary.LittleEndian.Uint32: b[0] | b[1]<<8 | b[2]<<16 | b[3]<<24
Uint32(b) == U32(b[3] + 256 * b[4], b[1] + 256 * b[2])

RECURSIVE XorN(_, _, _)
\* bitwise exclusive or of the n low bits of a and b
XorN(a, b, n) ==
    IF n = 0 THEN 0
    ELSE ((a + b) % 2) + 2 * XorN(a \div 2, b \div 2, n - 1)

Xor32(x, y) == U32(XorN(x.hi, y.hi, 16), XorN(x.lo, y.lo, 16))

Not32(x) == U32(65535 - x.hi, 65535 - x.lo)

Shr1(x) == U32(x.hi \div 2, (x.lo \div 2) + 32768 * (x.hi % 2))

Shr8(x) == U32(x.hi \div 256, (x.lo \div 256) + 256 * (x.hi % 256))

----------------------------------------------------------------------------
(* CRC-32 (IEEE 802.3), as hash/crc32.ChecksumIEEE computes it             *)

\* the reversed IEEE polynomial 0xEDB88320
IEEEPoly == U32(60856, 33568)

RECURSIVE CrcBits(_, _)
\* k rounds of: if crc&1 then (crc>>1)^poly else crc>>1
CrcBits(c, k) ==
    IF k = 0 THEN c
    ELSE CrcBits(IF c.lo % 2 = 1 THEN Xor32(Shr1(c), IEEEPoly) ELSE Shr1(c), k - 1)

\* the 256-entry lookup table of the polynomial
crcTable == [n \in 0..255 |-> CrcBits(U32(0, n), 8)]

\* one step of the update loop: crc = tab[byte(crc)^v] ^ (crc >> 8)
CrcStep(c, v) == Xor32(crcTable[XorN(c.lo % 256, v, 8)], Shr8(c))

RECURSIVE CrcUpdate(_, _, _, _)
\* the update loop over bytes p[i..j], first to last.  The range is split in
\* halves and the intermediate crc is bound as a value, which keeps the
\* evaluation shallow; the result is that of the byte-by-byte loop.
CrcUpdate(c, p, i, j) ==
    IF i > j THEN c
    ELSE IF i = j THEN CrcStep(c, p[i])
    ELSE LET m == (i + j) \div 2
         IN  CHOOSE r \in {CrcUpdate(left, p, m + 1, j) : left \in {CrcUpdate(c, p, i, m)}} : TRUE

ChecksumIEEE(p) == Not32(CrcUpdate(Not32(Zero32), p, 1, Len(p)))

----------------------------------------------------------------------------
(* protocol constants                                                      *)

LengthFieldSize == 1
SequenceFieldSize == 4
CRCSize == 4
TerminalSize == 1
FrameHeaderSize == LengthFieldSize + 4 + 1 + SequenceFieldSize
MaxFrameSize == 128
MaxPayloadSize == MaxFrameSize - FrameHeaderSize - CRCSize - TerminalSize
headerWithoutLen == FrameHeaderSize - LengthFieldSize
FrameTerminal == 85

\* milliseconds
HeartbeatInterval == 5000
DeviceTimeout == 15000

FrameTypePairing == 1
FrameTypeData == 2
FrameTypeHeartbeat == 3
FrameTypeAck == 4

----------------------------------------------------------------------------
(* Frame codec                                                             *)

\* a *Frame that is nil
NoFrame == [nil |-> TRUE]

\* a Frame value; HasPayload is "Payload != nil"
Frame(sender, type, seq, hasPayload, payload) ==
    [nil |-> FALSE, Length |-> 0, SenderID |-> sender, Type |-> type, Seq |-> seq,
     HasPayload |-> hasPayload, Payload |-> payload, CRC |-> Zero32]

\* make([]byte, n)
MakeBytes(n) == [i \in 1..n |-> 0]

\* copy(data[off:], b) / PutUint32(data[off:off+4], ..): overwrite from 0-based offset off
PutAt(data, off, b) ==
    [i \in 1..Len(data) |->
        IF i > off /\ i <= off + Len(b) THEN b[i - off] ELSE data[i]]

\* EncodeFrame with the CRC taken over the payload as given, before truncation
EncodeFrameCrcUntruncated(p) ==
    IF p.nil THEN <<>>
    ELSE
      LET payload == IF p.HasPayload /\ Len(p.Payload) > MaxPayloadSize
                     THEN SubSeq(p.Payload, 1, MaxPayloadSize)
                     ELSE p.Payload
          payloadLen0 == IF p.HasPayload THEN Len(payload) ELSE 0
          bodyLen0 == headerWithoutLen + payloadLen0 + CRCSize + TerminalSize
          clamp == bodyLen0 > (MaxFrameSize - LengthFieldSize)
          bodyLen == IF clamp THEN MaxFrameSize - LengthFieldSize ELSE bodyLen0
          payloadLen == IF clamp /\ bodyLen >= headerWithoutLen + CRCSize + TerminalSize
                        THEN bodyLen - headerWithoutLen - CRCSize - TerminalSize
                        ELSE payloadLen0
          totalLen == LengthFieldSize + bodyLen
          d0 == MakeBytes(totalLen)
          d1 == PutAt(d0, 0, <<bodyLen % 256>>)
          d2 == PutAt(d1, 1, PutUint32(p.SenderID))
          d3 == PutAt(d2, 5, <<p.Type>>)
          d4 == PutAt(d3, 6, PutUint32(p.Seq))
          d5 == IF payloadLen > 0
                THEN PutAt(d4, FrameHeaderSize, SubSeq(payload, 1, payloadLen))
                ELSE d4
          crc == IF payloadLen > 0
                 THEN ChecksumIEEE(p.Payload)
                 ELSE Zero32
          crcPos == FrameHeaderSize + payloadLen
          d6 == PutAt(d5, crcPos, PutUint32(crc))
      IN  PutAt(d6, totalLen - 1, <<FrameTerminal>>)

\* EncodeFrame with the length byte counting itself (total length, not total - 1)
EncodeFrameLenTotal(p) ==
    IF p.nil THEN <<>>
    ELSE
      LET payload == IF p.HasPayload /\ Len(p.Payload) > MaxPayloadSize
                     THEN SubSeq(p.Payload, 1, MaxPayloadSize)
                     ELSE p.Payload
          payloadLen0 == IF p.HasPayload THEN Len(payload) ELSE 0
          bodyLen0 == headerWithoutLen + payloadLen0 + CRCSize + TerminalSize
          clamp == bodyLen0 > (MaxFrameSize - LengthFieldSize)
          bodyLen == IF clamp THEN MaxFrameSize - LengthFieldSize ELSE bodyLen0
          payloadLen == IF clamp /\ bodyLen >= headerWithoutLen + CRCSize + TerminalSize
                        THEN bodyLen - headerWithoutLen - CRCSize - TerminalSize
                        ELSE payloadLen0
          totalLen == LengthFieldSize + bodyLen
          d0 == MakeBytes(totalLen)
          d1 == PutAt(d0, 0, <<totalLen % 256>>)
          d2 == PutAt(d1, 1, PutUint32(p.SenderID))
          d3 == PutAt(d2, 5, <<p.Type>>)
          d4 == PutAt(d3, 6, PutUint32(p.Seq))
          d5 == IF payloadLen > 0
                THEN PutAt(d4, FrameHeaderSize, SubSeq(payload, 1, payloadLen))
                ELSE d4
          crc == IF payloadLen > 0
                 THEN ChecksumIEEE(SubSeq(payload, 1, payloadLen))
                 ELSE Zero32
          crcPos == FrameHeaderSize + payloadLen
          d6 == PutAt(d5, crcPos, PutUint32(crc))
      IN  PutAt(d6, totalLen - 1, <<FrameTerminal>>)

EncodeFrame(p) ==
    IF p.nil THEN <<>>
    ELSE
      LET payload == IF p.HasPayload /\ Len(p.Payload) > MaxPayloadSize
                     THEN SubSeq(p.Payload, 1, MaxPayloadSize)
                     ELSE p.Payload
          payloadLen0 == IF p.HasPayload THEN Len(payload) ELSE 0
          bodyLen0 == headerWithoutLen + payloadLen0 + CRCSize + TerminalSize
          clamp == bodyLen0 > (MaxFrameSize - LengthFieldSize)
          bodyLen == IF clamp THEN MaxFrameSize - LengthFieldSize ELSE bodyLen0
          payloadLen == IF clamp /\ bodyLen >= headerWithoutLen + CRCSize + TerminalSize
                        THEN bodyLen - headerWithoutLen - CRCSize - TerminalSize
                        ELSE payloadLen0
          totalLen == LengthFieldSize + bodyLen
          d0 == MakeBytes(totalLen)
          d1 == PutAt(d0, 0, <<bodyLen % 256>>)
          d2 == PutAt(d1, 1, PutUint32(p.SenderID))
          d3 == PutAt(d2, 5, <<p.Type>>)
          d4 == PutAt(d3, 6, PutUint32(p.Seq))
          d5 == IF payloadLen > 0
                THEN PutAt(d4, FrameHeaderSize, SubSeq(payload, 1, payloadLen))
                ELSE d4
          crc == IF payloadLen > 0
                 THEN ChecksumIEEE(SubSeq(payload, 1, payloadLen))
                 ELSE Zero32
          crcPos == FrameHeaderSize + payloadLen
          d6 == PutAt(d5, crcPos, PutUint32(crc))
      IN  PutAt(d6, totalLen - 1, <<FrameTerminal>>)

\* what EncodeFrame leaves in the Frame its argument points to: the payload cut
\* to MaxPayloadSize (p.Payload = p.Payload[:MaxPayloadSize]) and the length
\* byte it wrote (p.Length = byte(bodyLen))
EncodedFrame(p) ==
    IF p.nil THEN p
    ELSE
      LET payload == IF p.HasPayload /\ Len(p.Payload) > MaxPayloadSize
                     THEN SubSeq(p.Payload, 1, MaxPayloadSize)
                     ELSE p.Payload
          payloadLen0 == IF p.HasPayload THEN Len(payload) ELSE 0
          bodyLen0 == headerWithoutLen + payloadLen0 + CRCSize + TerminalSize
          bodyLen == IF bodyLen0 > (MaxFrameSize - LengthFieldSize)
                     THEN MaxFrameSize - LengthFieldSize
                     ELSE bodyLen0
      IN  [p EXCEPT !.Payload = payload, !.Length = bodyLen % 256]

\* DecodeFrame without the comparison of the received and the computed CRC
DecodeFrameNoCRC(data) ==
    LET minLen == FrameHeaderSize + CRCSize + TerminalSize
    IN
    IF Len(data) < minLen THEN NoFrame
    ELSE
      LET bodyLen == data[1]
      IN
      IF bodyLen = 0 \/ (bodyLen + LengthFieldSize) > Len(data) THEN NoFrame
      ELSE IF data[LengthFieldSize + bodyLen] # FrameTerminal THEN NoFrame
      ELSE
        LET payloadLen == bodyLen - headerWithoutLen - (CRCSize + TerminalSize)
        IN
        IF payloadLen < 0 \/ payloadLen > MaxPayloadSize THEN NoFrame
        ELSE
          LET payloadOffset == FrameHeaderSize
              crcOffset == payloadOffset + payloadLen
          IN
          IF crcOffset + CRCSize > Len(data) THEN NoFrame
          ELSE
            LET recvCRC == Uint32(SubSeq(data, crcOffset + 1, crcOffset + CRCSize))
                calcCRC == ChecksumIEEE(SubSeq(data, payloadOffset + 1, crcOffset))
            IN
            IF FALSE THEN NoFrame
            ELSE [nil |-> FALSE,
                  Length |-> bodyLen,
                  SenderID |-> Uint32(SubSeq(data, 2, 5)),
                  Type |-> data[6],
                  Seq |-> Uint32(SubSeq(data, 7, 10)),
                  HasPayload |-> TRUE,
                  Payload |-> SubSeq(data, payloadOffset + 1, payloadOffset + payloadLen),
                  CRC |-> recvCRC]

DecodeFrame(data) ==
    LET minLen == FrameHeaderSize + CRCSize + TerminalSize
    IN
    IF Len(data) < minLen THEN NoFrame
    ELSE
      LET bodyLen == data[1]
      IN
      IF bodyLen = 0 \/ (bodyLen + LengthFieldSize) > Len(data) THEN NoFrame
      ELSE IF data[LengthFieldSize + bodyLen] # FrameTerminal THEN NoFrame
      ELSE
        LET payloadLen == bodyLen - headerWithoutLen - (CRCSize + TerminalSize)
        IN
        IF payloadLen < 0 \/ payloadLen > MaxPayloadSize THEN NoFrame
        ELSE
          LET payloadOffset == FrameHeaderSize
              crcOffset == payloadOffset + payloadLen
          IN
          IF crcOffset + CRCSize > Len(data) THEN NoFrame
          ELSE
            LET recvCRC == Uint32(SubSeq(data, crcOffset + 1, crcOffset + CRCSize))
                calcCRC == ChecksumIEEE(SubSeq(data, payloadOffset + 1, crcOffset))
            IN
            IF recvCRC # calcCRC THEN NoFrame
            ELSE [nil |-> FALSE,
                  Length |-> bodyLen,
                  SenderID |-> Uint32(SubSeq(data, 2, 5)),
                  Type |-> data[6],
                  Seq |-> Uint32(SubSeq(data, 7, 10)),
                  HasPayload |-> TRUE,
                  Payload |-> SubSeq(data, payloadOffset + 1, payloadOffset + payloadLen),
                  CRC |-> recvCRC]

----------------------------------------------------------------------------
(* Identities and the initial values of the parts a specification leaves   *)
(* alone                                                                   *)

\* the identities of the transport tests: transmitter 0xCAFE, receiver 0xBEEF
TxId == U32(0, 51966)
RxId == U32(0, 48879)
\* a third device on the channel (0xF00D)
OtherId == U32(0, 61453)
\* no CleanupDeadDevices has run yet
NoPre == [reg |-> <<>>, now |-> 0]

\* no packet has been processed yet
NoLast == [data |-> <<>>, pkt |-> [nil |-> TRUE], reg |-> <<>>, now |-> 0, out |-> <<>>,
           trace |-> <<>>, via |-> "none"]

\* no ReceiveData call has been made; got is the history of what Rx returned to the call
\* cur is the buffer whose packet the call holds between ReceivePacket and its return
IdleRecv == [pc |-> "idle", polls |-> 0, rx |-> 0, res |-> "none", data |-> <<>>,
             empty |-> FALSE, got |-> <<>>, cur |-> <<>>]

\* how many empty polls fit into ReceiveData's 5000 ms
RecvPolls == 1

\* Listen has started no goroutine and no Listen call is under way.  Of the
\* goroutines it has started, head are at the loop's test, rx are inside
\* ReceivePacket, got are the buffers whose packets the others are about to
\* hand to ProcessPacket, and stuck are inside a ProcessPacket that never
\* returns; set are the Listen calls that have read r.isListening as false
\* and have not yet written it
NoLoops == [head |-> 0, rx |-> 0, got |-> <<>>, stuck |-> 0, set |-> 0]

\* no Receiver.StartPairing call has been made; was is the call's wasListening
\* cur is the buffer whose packet the call holds between ReceivePacket and the next turn
IdlePair == [pc |-> "idle", polls |-> 0, was |-> FALSE, res |-> "none", got |-> <<>>,
             cur |-> <<>>]

\* how many empty polls fit into Receiver.StartPairing's deadline
ReceiverPairPolls == 1

\* a pairing key (GeneratePairingKey draws it at random): 0x12345678
TxKey == U32(4660, 22136)

\* how many empty polls fit into StartPairing's 30000 ms deadline
PairPolls == 1
\* how many empty polls fit into one 200 ms wait window of SendDataReliable
PollsPerWindow == 1

CodecOff ==
    /\ cFrame = NoFrame
    /\ cGiven = NoFrame
    /\ cWire = <<>>
    /\ cOut = NoFrame
    /\ cPc = "off"
    /\ cHow = "clean"

\* NewReceiverWithDriver: no callback registered, the mutex free
AppOff ==
    /\ rxCallback = "none"
    /\ rxCbCalls = <<>>
    /\ rxBlocked = FALSE
    /\ rxRecv = IdleRecv
    /\ rxLast = NoLast
    /\ rxLoops = NoLoops
    /\ rxPair = IdlePair
    /\ rxHeld = {}

RxOff ==
    /\ rxId = RxId
    /\ rxReg = <<>>
    /\ rxListening = FALSE
    /\ rxLog = <<>>
    /\ rxRxQ = <<>>
    /\ rxAcks = <<>>
    /\ taskOn = FALSE
    /\ taskWake = 0
    /\ rxLastOp = "none"
    /\ rxPre = NoPre
    /\ AppOff

\* ConnectDrivers has not been called: there is no forwarding goroutine
NoForward == [pc |-> "off", side |-> "a", log |-> <<>>]

\* ConnectDrivers(driverTx, driverRx): the goroutine is about to copy a's log;
\* a is the transmitter's driver, b the receiver's
ForwardStart == [pc |-> "get", side |-> "a", log |-> <<>>]

EnvOff ==
    /\ peerSent = 0
    /\ linked = FALSE
    /\ fwd = NoForward
    /\ now = 0
    /\ silent = {}

\* the goroutines of the statement-level specifications
Goroutines == {"app", "beat"}

\* a goroutine that is not inside SendFrame; n counts the calls it has made
IdleGo == [pc |-> "idle", type |-> 0, seq |-> Zero32, tmp |-> Zero32, n |-> 0]

\* the stub driver's ring buffer: capacity, and the buffer after construction
\* (frames are numbered in the order they are pushed; 0 is nil)
ringCapacity == 64

\* no push or pop has been made; want is what a FIFO would have returned
NoPop == [op |-> "none", frame |-> 0, ok |-> FALSE, want |-> 0]

RingOff ==
    /\ rbData = [i \in 0..(ringCapacity - 1) |-> 0]
    /\ rbHead = 0
    /\ rbTail = 0
    /\ rbCount = 0
    /\ rbPushed = 0
    /\ rbKept = <<>>
    /\ rbOut = NoPop

\* no public operation of the Receiver has run
NoAccess == [op |-> "none", trace |-> <<>>, res |-> FALSE]

\* Receiver.StartHeartbeatTask has not been called
NoBeat == [on |-> FALSE, wake |-> 0]

TraceOff ==
    /\ rxAccepted = {}
    /\ rxAccess = NoAccess
    /\ rxBeat = NoBeat

OtherOff ==
    /\ txGo = [g \in Goroutines |-> IdleGo]
    /\ TraceOff
    /\ RingOff

----------------------------------------------------------------------------
(* Transmitter of the Frame format (transport package)                     *)

\* no call in progress
IdleOp ==
    [name |-> "idle", pc |-> "", seq |-> Zero32, rid |-> Zero32, frame |-> <<>>,
     attempt |-> 0, maxRetries |-> 0, polls |-> 0]

NoCall ==
    [n |-> 0, rel |-> 0, name |-> "none", type |-> 0, plen |-> 0, payload |-> <<>>,
     paired |-> FALSE, seq |-> Zero32, maxRetries |-> 0,
     prev |-> [name |-> "none", res |-> "none", paired |-> FALSE]]

\* the record of a call as it is made: its number, its arguments, the state it starts from
Call(name, type, payload, maxRetries) ==
    [n |-> txCall.n + 1,
     rel |-> txCall.rel + (IF name = "SendDataReliable" THEN 1 ELSE 0),
     name |-> name, type |-> type, plen |-> Len(payload), payload |-> payload,
     paired |-> txPaired, seq |-> txSeq, maxRetries |-> maxRetries,
     prev |-> [name |-> txCall.name, res |-> txRes, paired |-> txCall.paired]]

\* one buffer handed to driver.Tx by the call in progress
Sent(via, data) ==
    [call |-> txCall.n + (IF txOp.name = "idle" THEN 1 ELSE 0),
     rel |-> txCall.rel,
     via |-> via, data |-> data]

\* a transmitter that is not part of the specification at hand
TxOff ==
    /\ txPaired = FALSE
    /\ txSeq = Zero32
    /\ txReceiver = Zero32
    /\ txKey = Zero32
    /\ txLog = <<>>
    /\ txRxQ = <<>>
    /\ txOp = IdleOp
    /\ txRes = "none"
    /\ txCall = NoCall
    /\ txTag = <<>>
    /\ txRcvd = <<>>

\* SendFrame's gate without the pairing check
SendFrameErrNoGate(paired, FrameType, payload) ==
    IF Len(payload) > MaxPayloadSize THEN "InvalidPayload" ELSE "ok"

\* SendFrame refusing a payload of exactly MaxPayloadSize bytes
SendFrameErrInclusive(paired, FrameType, payload) ==
    IF ~paired /\ FrameType # FrameTypePairing THEN "NotPaired"
    ELSE IF Len(payload) >= MaxPayloadSize THEN "InvalidPayload"
    ELSE "ok"

\* SendFrame, the checks before anything is sent: the error returned, or "ok"
SendFrameErr(paired, FrameType, payload) ==
    IF ~paired /\ FrameType # FrameTypePairing THEN "NotPaired"
    ELSE IF Len(payload) > MaxPayloadSize THEN "InvalidPayload"
    ELSE "ok"

\* a sequence counter of 16 bits, as the Packet transmitter had
NextSeq16(seq) == U32(seq.hi, (seq.lo + 1) % 65536)

\* t.seq++
NextSeq(seq) == Inc32(seq)

\* SendFrame past its checks: seq := t.seq; t.seq++; driver.Tx(EncodeFrame(frame))
SendFrameTx(FrameType, hasPayload, payload) ==
    LET seq == txSeq
        frame == Frame(TxId, FrameType, seq, hasPayload, payload)
        data == EncodeFrame(frame)
    IN  /\ txSeq' = NextSeq(txSeq)
        /\ txLog' = Append(txLog, data)
        /\ txTag' = Append(txTag, Sent("SendFrame", data))

\* Transmitter.SendFrame(FrameType, payload), a whole call
SendFrame(FrameType, hasPayload, payload) ==
    LET err == SendFrameErr(txPaired, FrameType, payload)
    IN  /\ txOp.name = "idle"
        /\ txCall' = Call("SendFrame", FrameType, payload, 0)
        /\ txRes' = err
        /\ IF err = "ok"
           THEN SendFrameTx(FrameType, hasPayload, payload)
           ELSE UNCHANGED <<txSeq, txLog, txTag>>
        /\ UNCHANGED <<txPaired, txReceiver, txKey, txRxQ, txOp, txRcvd>>

\* Transmitter.SendData(data)
SendData(data) ==
    /\ txOp.name = "idle"
    /\ txCall' = Call("SendData", FrameTypeData, data, 0)
    /\ IF ~txPaired
       THEN /\ txRes' = "NotPaired"
            /\ UNCHANGED <<txSeq, txLog, txTag>>
       ELSE LET err == SendFrameErr(txPaired, FrameTypeData, data)
            IN  /\ txRes' = err
                /\ IF err = "ok"
                   THEN SendFrameTx(FrameTypeData, TRUE, data)
                   ELSE UNCHANGED <<txSeq, txLog, txTag>>
    /\ UNCHANGED <<txPaired, txReceiver, txKey, txRxQ, txOp, txRcvd>>

\* Transmitter.SendHeartbeat(): a Heartbeat frame with a nil payload
SendHeartbeat ==
    /\ txOp.name = "idle"
    /\ txCall' = Call("SendHeartbeat", FrameTypeHeartbeat, <<>>, 0)
    /\ IF ~txPaired
       THEN /\ txRes' = "NotPaired"
            /\ UNCHANGED <<txSeq, txLog, txTag>>
       ELSE LET err == SendFrameErr(txPaired, FrameTypeHeartbeat, <<>>)
            IN  /\ txRes' = err
                /\ IF err = "ok"
                   THEN SendFrameTx(FrameTypeHeartbeat, FALSE, <<>>)
                   ELSE UNCHANGED <<txSeq, txLog, txTag>>
    /\ UNCHANGED <<txPaired, txReceiver, txKey, txRxQ, txOp, txRcvd>>

\* a test that accepts an Ack for any sequence number
PairingAckMatchesAnySeq(frame, seq, receiverID) ==
    /\ ~frame.nil
    /\ frame.Type = FrameTypeAck
    /\ Len(frame.Payload) >= 4
    /\ Uint32(SubSeq(frame.Payload, 1, 4)) = receiverID

\* StartPairing's test of a received frame
PairingAckMatches(frame, seq, receiverID) ==
    /\ ~frame.nil
    /\ frame.Type = FrameTypeAck
    /\ frame.Seq = seq
    /\ Len(frame.Payload) >= 4
    /\ Uint32(SubSeq(frame.Payload, 1, 4)) = receiverID

\* Transmitter.StartPairing(receiverID), up to the first poll
StartPairing(receiverID) ==
    LET buf == PutUint32(txKey) \o PutUint32(receiverID)
        err == SendFrameErr(txPaired, FrameTypePairing, buf)
    IN  /\ txOp.name = "idle"
        /\ txCall' = Call("StartPairing", FrameTypePairing, buf, 0)
        /\ txReceiver' = receiverID
        /\ txRcvd' = <<>>
        /\ IF err = "ok"
           THEN /\ SendFrameTx(FrameTypePairing, TRUE, buf)
                /\ txOp' = [IdleOp EXCEPT !.name = "StartPairing", !.pc = "wait",
                                          !.seq = txSeq, !.rid = receiverID,
                                          !.polls = PairPolls]
                /\ txRes' = "pending"
           ELSE /\ txRes' = err
                /\ UNCHANGED <<txSeq, txLog, txTag, txOp>>
        /\ UNCHANGED <<txPaired, txKey, txRxQ>>

\* StartPairing, one turn of its loop: ReceiveFrame(100 ms) and the test.  The
\* driver's Rx fails as soon as it finds its own queue empty, whatever is on
\* its way to it; the turns that find nothing use up the time to the deadline
PairingPoll ==
    /\ txOp.name = "StartPairing"
    /\ txOp.polls > 0
    /\ IF txRxQ = <<>>
       THEN /\ txOp' = [txOp EXCEPT !.polls = @ - 1]
            /\ UNCHANGED <<txPaired, txRxQ, txRes, txRcvd>>
       ELSE LET data == Head(txRxQ)
                frame == DecodeFrame(data)
            IN  /\ txRxQ' = Tail(txRxQ)
                /\ txRcvd' = Append(txRcvd, [attempt |-> 1, data |-> data])
                /\ IF PairingAckMatches(frame, txOp.seq, txOp.rid)
                   THEN /\ txPaired' = TRUE
                        /\ txRes' = "ok"
                        /\ txOp' = IdleOp
                   ELSE UNCHANGED <<txPaired, txRes, txOp>>
    /\ UNCHANGED <<txSeq, txReceiver, txKey, txLog, txCall, txTag>>

\* a deadline that leaves the Transmitter marked as paired
PairingDeadlineMarksPaired ==
    /\ txOp.name = "StartPairing"
    /\ txOp.polls = 0
    /\ txRes' = "Timeout"
    /\ txOp' = IdleOp
    /\ txPaired' = TRUE
    /\ UNCHANGED <<txSeq, txReceiver, txKey, txLog, txRxQ, txCall, txTag, txRcvd>>

\* StartPairing, the deadline has passed
PairingDeadline ==
    /\ txOp.name = "StartPairing"
    /\ txOp.polls = 0
    /\ txRes' = "Timeout"
    /\ txOp' = IdleOp
    /\ UNCHANGED <<txPaired, txSeq, txReceiver, txKey, txLog, txRxQ, txCall, txTag, txRcvd>>

\* a retry loop that runs once more than asked
MoreAttemptsInclusive(attempt, maxRetries) == attempt <= maxRetries

\* a retry loop that tests its condition after the first attempt
MoreAttemptsAtLeastOnce(attempt, maxRetries) == attempt = 0 \/ attempt < maxRetries

\* SendDataReliable's loop condition
MoreAttempts(attempt, maxRetries) == attempt < maxRetries

\* SendDataReliable's test of a received frame
ReliableAckMatches(frame, seq) ==
    /\ ~frame.nil
    /\ frame.HasPayload
    /\ frame.Type = FrameTypeAck
    /\ frame.Seq = seq

\* SendDataReliable without its length check
ReliableErrNoLength(paired, data) ==
    IF ~paired THEN "NotPaired" ELSE "ok"

\* SendDataReliable, the checks before the sequence number is taken: the error returned, or "ok"
ReliableErr(paired, data) ==
    IF ~paired THEN "NotPaired"
    ELSE IF Len(data) > MaxPayloadSize THEN "InvalidPayload"
    ELSE "ok"

\* Transmitter.SendDataReliable(data, maxRetries), up to the retry loop
SendDataReliable(data, maxRetries) ==
    LET seq == txSeq
        encodedFrame == EncodeFrame(Frame(TxId, FrameTypeData, seq, TRUE, data))
    IN  /\ txOp.name = "idle"
        /\ txCall' = Call("SendDataReliable", FrameTypeData, data, maxRetries)
        /\ txRcvd' = <<>>
        /\ IF ReliableErr(txPaired, data) # "ok"
           THEN /\ txRes' = ReliableErr(txPaired, data)
                /\ UNCHANGED <<txSeq, txOp>>
           ELSE /\ txSeq' = NextSeq(txSeq)
                /\ IF Len(encodedFrame) < FrameHeaderSize
                   THEN /\ txRes' = "InvalidPayload"
                        /\ UNCHANGED txOp
                   ELSE /\ txRes' = "pending"
                        /\ txOp' = [IdleOp EXCEPT !.name = "SendDataReliable", !.pc = "loop",
                                                  !.seq = seq, !.frame = encodedFrame,
                                                  !.maxRetries = maxRetries]
        /\ UNCHANGED <<txPaired, txReceiver, txKey, txLog, txRxQ, txTag>>

\* SendDataReliable, the head of an attempt: driver.Tx(encodedFrame)
ReliableTransmit ==
    /\ txOp.name = "SendDataReliable"
    /\ txOp.pc = "loop"
    /\ MoreAttempts(txOp.attempt, txOp.maxRetries)
    /\ txLog' = Append(txLog, txOp.frame)
    /\ txTag' = Append(txTag, Sent("SendDataReliable", txOp.frame))
    /\ txOp' = [txOp EXCEPT !.pc = "wait", !.polls = PollsPerWindow]
    /\ UNCHANGED <<txPaired, txSeq, txReceiver, txKey, txRxQ, txRes, txCall, txRcvd>>

\* SendDataReliable, one turn of the 200 ms wait loop: ReceiveFrame(20 ms) and the
\* test.  A turn that reads a frame costs the 10 ms of its Sleep, so the window
\* reads every frame that is queued (up to 20 of them); the turns that find
\* nothing use up the window
ReliablePoll ==
    /\ txOp.name = "SendDataReliable"
    /\ txOp.pc = "wait"
    /\ txOp.polls > 0
    /\ IF txRxQ = <<>>
       THEN /\ txOp' = [txOp EXCEPT !.polls = @ - 1]
            /\ UNCHANGED <<txRxQ, txRes, txRcvd>>
       ELSE LET data == Head(txRxQ)
                frame == DecodeFrame(data)
            IN  /\ txRxQ' = Tail(txRxQ)
                /\ txRcvd' = Append(txRcvd, [attempt |-> txOp.attempt + 1, data |-> data])
                /\ IF ReliableAckMatches(frame, txOp.seq)
                   THEN /\ txRes' = "ok"
                        /\ txOp' = IdleOp
                   ELSE UNCHANGED <<txRes, txOp>>
    /\ UNCHANGED <<txPaired, txSeq, txReceiver, txKey, txLog, txCall, txTag>>

\* a retry that takes a fresh sequence number and encodes the frame anew
ReliableWindowEndReseq ==
    /\ txOp.name = "SendDataReliable"
    /\ txOp.pc = "wait"
    /\ txOp.polls = 0
    /\ txSeq' = NextSeq(txSeq)
    /\ txOp' = [txOp EXCEPT !.pc = "loop", !.attempt = @ + 1,
                            !.frame = EncodeFrame(Frame(TxId, FrameTypeData, txSeq, TRUE,
                                                        txCall.payload))]
    /\ UNCHANGED <<txPaired, txReceiver, txKey, txLog, txRxQ, txRes, txCall, txTag, txRcvd>>

\* SendDataReliable, the wait window is over: back off and go to the next attempt
ReliableWindowEnd ==
    /\ txOp.name = "SendDataReliable"
    /\ txOp.pc = "wait"
    /\ txOp.polls = 0
    /\ txOp' = [txOp EXCEPT !.pc = "loop", !.attempt = @ + 1]
    /\ UNCHANGED <<txPaired, txSeq, txReceiver, txKey, txLog, txRxQ, txRes, txCall, txTag, txRcvd>>

\* SendDataReliable, the loop has ended without a matching Ack
ReliableGiveUp ==
    /\ txOp.name = "SendDataReliable"
    /\ txOp.pc = "loop"
    /\ ~MoreAttempts(txOp.attempt, txOp.maxRetries)
    /\ txRes' = "Timeout"
    /\ txOp' = IdleOp
    /\ UNCHANGED <<txPaired, txSeq, txReceiver, txKey, txLog, txRxQ, txCall, txTag, txRcvd>>

----------------------------------------------------------------------------
(* Packet codec: the on-air format the Receiver reads and writes           *)

MaxPacketSize == 64
PacketHeaderSize == 8
PacketMaxPayloadSize == MaxPacketSize - PacketHeaderSize
packetHeaderWithoutLen == PacketHeaderSize - 1

PacketTypePairing == 1
PacketTypeData == 2
PacketTypeHeartbeat == 3
PacketTypeAck == 4

NoPacket == [nil |-> TRUE]

\* a Packet value; Reserved is a pair of bytes, HasPayload is "Payload != nil"
Packet(sender, type, reserved, hasPayload, payload) ==
    [nil |-> FALSE, Length |-> 0, SenderID |-> sender, Type |-> type,
     Reserved |-> reserved, HasPayload |-> hasPayload, Payload |-> payload]

Min(a, b) == IF a < b THEN a ELSE b

\* EncodePacket(p) for p != nil
EncodePacket(p) ==
    LET payloadLen == IF p.HasPayload THEN Len(p.Payload) ELSE 0
        bodyLen == Min(packetHeaderWithoutLen + payloadLen, PacketMaxPayloadSize - 1)
        totalLen == Min(bodyLen + 1, MaxPacketSize)
        usablePayloadLen == totalLen - PacketHeaderSize
        copyLen == IF usablePayloadLen > 0 /\ payloadLen > 0
                   THEN Min(usablePayloadLen, payloadLen)
                   ELSE 0
        sender == PutUint32(p.SenderID)
    IN  [k \in 1..totalLen |->
            IF k = 1 THEN bodyLen
            ELSE IF k <= 5 THEN sender[k - 1]
            ELSE IF k = 6 THEN p.Type
            ELSE IF k = 7 THEN p.Reserved[1]
            ELSE IF k = 8 THEN p.Reserved[2]
            ELSE IF k - PacketHeaderSize <= copyLen THEN p.Payload[k - PacketHeaderSize]
            ELSE 0]

\* DecodePacket(data)
DecodePacket(data) ==
    IF Len(data) < PacketHeaderSize THEN NoPacket
    ELSE
      LET bodyLen == data[1]
          totalLen == bodyLen + 1
          payloadLen == bodyLen - packetHeaderWithoutLen
      IN  IF bodyLen = 0 \/ bodyLen > PacketMaxPayloadSize - 1 THEN NoPacket
          ELSE IF totalLen > Len(data) THEN NoPacket
          ELSE IF Len(data) < 8 THEN NoPacket
          ELSE [nil |-> FALSE,
                Length |-> bodyLen,
                SenderID |-> Uint32(SubSeq(data, 2, 5)),
                Type |-> data[6],
                Reserved |-> <<data[7], data[8]>>,
                HasPayload |-> TRUE,
                Payload |-> IF payloadLen > 0 /\ PacketHeaderSize + payloadLen <= Len(data)
                            THEN SubSeq(data, PacketHeaderSize + 1, PacketHeaderSize + payloadLen)
                            ELSE <<>>]

----------------------------------------------------------------------------
(* Transmitter of the Packet format (transport/transmitter.go), the peer   *)
(* of the Receiver below: a 16-bit counter carried in the Reserved bytes   *)

\* SendPacket, the checks before anything is sent: the error returned, or "ok"
SendPacketErr(paired, packetType, payload) ==
    IF ~paired /\ packetType # PacketTypePairing THEN "NotPaired"
    ELSE IF Len(payload) > PacketMaxPayloadSize - PacketHeaderSize THEN "InvalidPayload"
    ELSE "ok"

\* t.seq++ on the uint16 counter
PacketNextSeq(seq) == U32(0, (seq.lo + 1) % 65536)

\* [2]byte{byte(seq), byte(seq >> 8)}
SeqBytes(seq) == <<seq.lo % 256, (seq.lo \div 256) % 256>>

\* SendPacket past its checks: seq := t.seq; t.seq++; driver.Tx(EncodePacket(pkt))
SendPacketTx(packetType, hasPayload, payload) ==
    LET seq == txSeq
        pkt == Packet(TxId, packetType, SeqBytes(seq), hasPayload, payload)
        data == EncodePacket(pkt)
    IN  /\ txSeq' = PacketNextSeq(txSeq)
        /\ txLog' = Append(txLog, data)
        /\ txTag' = Append(txTag, Sent("SendPacket", data))

\* Transmitter.SendData(data) of the Packet format
PacketSendData(data) ==
    /\ txOp.name = "idle"
    /\ txCall' = Call("SendData", PacketTypeData, data, 0)
    /\ IF ~txPaired
       THEN /\ txRes' = "NotPaired"
            /\ UNCHANGED <<txSeq, txLog, txTag>>
       ELSE LET err == SendPacketErr(txPaired, PacketTypeData, data)
            IN  /\ txRes' = err
                /\ IF err = "ok"
                   THEN SendPacketTx(PacketTypeData, TRUE, data)
                   ELSE UNCHANGED <<txSeq, txLog, txTag>>
    /\ UNCHANGED <<txPaired, txReceiver, txKey, txRxQ, txOp, txRcvd>>

\* Transmitter.SendHeartbeat() of the Packet format: a Heartbeat packet
\* with a nil payload
PacketSendHeartbeat ==
    /\ txOp.name = "idle"
    /\ txCall' = Call("SendHeartbeat", PacketTypeHeartbeat, <<>>, 0)
    /\ IF ~txPaired
       THEN /\ txRes' = "NotPaired"
            /\ UNCHANGED <<txSeq, txLog, txTag>>
       ELSE LET err == SendPacketErr(txPaired, PacketTypeHeartbeat, <<>>)
            IN  /\ txRes' = err
                /\ IF err = "ok"
                   THEN SendPacketTx(PacketTypeHeartbeat, FALSE, <<>>)
                   ELSE UNCHANGED <<txSeq, txLog, txTag>>
    /\ UNCHANGED <<txPaired, txReceiver, txKey, txRxQ, txOp, txRcvd>>

\* StartPairing's test of a received packet: an Ack whose payload begins
\* with the receiver's identity; the sequence number is not looked at
PacketPairingAckMatches(pkt, seq, receiverID) ==
    /\ ~pkt.nil
    /\ pkt.Type = PacketTypeAck
    /\ Len(pkt.Payload) >= 4
    /\ Uint32(SubSeq(pkt.Payload, 1, 4)) = receiverID

\* Transmitter.StartPairing(receiverID) of the Packet format, up to the first poll
PacketStartPairing(receiverID) ==
    LET buf == PutUint32(txKey) \o PutUint32(receiverID)
        err == SendPacketErr(txPaired, PacketTypePairing, buf)
    IN  /\ txOp.name = "idle"
        /\ txCall' = Call("StartPairing", PacketTypePairing, buf, 0)
        /\ txReceiver' = receiverID
        /\ txRcvd' = <<>>
        /\ IF err = "ok"
           THEN /\ SendPacketTx(PacketTypePairing, TRUE, buf)
                /\ txOp' = [IdleOp EXCEPT !.name = "StartPairing", !.pc = "wait",
                                          !.seq = txSeq, !.rid = receiverID,
                                          !.polls = PairPolls]
                /\ txRes' = "pending"
           ELSE /\ txRes' = err
                /\ UNCHANGED <<txSeq, txLog, txTag, txOp>>
        /\ UNCHANGED <<txPaired, txKey, txRxQ>>

\* StartPairing, one turn of its loop: ReceivePacket(100 ms) and the test; a
\* turn that finds the driver's queue empty uses up the time to the deadline
PacketPairingPoll ==
    /\ txOp.name = "StartPairing"
    /\ txOp.polls > 0
    /\ IF txRxQ = <<>>
       THEN /\ txOp' = [txOp EXCEPT !.polls = @ - 1]
            /\ UNCHANGED <<txPaired, txRxQ, txRes, txRcvd>>
       ELSE LET data == Head(txRxQ)
                pkt == DecodePacket(data)
            IN  /\ txRxQ' = Tail(txRxQ)
                /\ txRcvd' = Append(txRcvd, [attempt |-> 1, data |-> data])
                /\ IF PacketPairingAckMatches(pkt, txOp.seq, txOp.rid)
                   THEN /\ txPaired' = TRUE
                        /\ txRes' = "ok"
                        /\ txOp' = IdleOp
                   ELSE UNCHANGED <<txPaired, txRes, txOp>>
    /\ UNCHANGED <<txSeq, txReceiver, txKey, txLog, txCall, txTag>>

\* SendDataReliable's test of a received packet: an Ack whose first two
\* payload bytes are the sequence number of the send
PacketReliableAckMatches(pkt, seq) ==
    /\ ~pkt.nil
    /\ pkt.HasPayload
    /\ pkt.Type = PacketTypeAck
    /\ Len(pkt.Payload) >= 2
    /\ pkt.Payload[1] = SeqBytes(seq)[1]
    /\ pkt.Payload[2] = SeqBytes(seq)[2]

\* SendDataReliable of the Packet format, the checks before the sequence
\* number is taken: the error returned, or "ok"
PacketReliableErr(paired, data) ==
    IF ~paired THEN "NotPaired"
    ELSE IF Len(data) > PacketMaxPayloadSize - PacketHeaderSize THEN "InvalidPayload"
    ELSE "ok"

\* Transmitter.SendDataReliable(data, maxRetries) of the Packet format, up
\* to the retry loop
PacketSendDataReliable(data, maxRetries) ==
    LET seq == txSeq
        encodedPacket == EncodePacket(Packet(TxId, PacketTypeData, SeqBytes(seq), TRUE, data))
    IN  /\ txOp.name = "idle"
        /\ txCall' = Call("SendDataReliable", PacketTypeData, data, maxRetries)
        /\ txRcvd' = <<>>
        /\ IF PacketReliableErr(txPaired, data) # "ok"
           THEN /\ txRes' = PacketReliableErr(txPaired, data)
                /\ UNCHANGED <<txSeq, txOp>>
           ELSE /\ txSeq' = PacketNextSeq(txSeq)
                /\ IF Len(encodedPacket) < PacketHeaderSize
                   THEN /\ txRes' = "InvalidPayload"
                        /\ UNCHANGED txOp
                   ELSE /\ txRes' = "pending"
                        /\ txOp' = [IdleOp EXCEPT !.name = "SendDataReliable", !.pc = "loop",
                                                  !.seq = seq, !.frame = encodedPacket,
                                                  !.maxRetries = maxRetries]
        /\ UNCHANGED <<txPaired, txReceiver, txKey, txLog, txRxQ, txTag>>

\* SendDataReliable, one turn of the 200 ms wait loop: ReceivePacket(20 ms)
\* and the test; the turns that find nothing use up the window
PacketReliablePoll ==
    /\ txOp.name = "SendDataReliable"
    /\ txOp.pc = "wait"
    /\ txOp.polls > 0
    /\ IF txRxQ = <<>>
       THEN /\ txOp' = [txOp EXCEPT !.polls = @ - 1]
            /\ UNCHANGED <<txRxQ, txRes, txRcvd>>
       ELSE LET data == Head(txRxQ)
                pkt == DecodePacket(data)
            IN  /\ txRxQ' = Tail(txRxQ)
                /\ txRcvd' = Append(txRcvd, [attempt |-> txOp.attempt + 1, data |-> data])
                /\ IF PacketReliableAckMatches(pkt, txOp.seq)
                   THEN /\ txRes' = "ok"
                        /\ txOp' = IdleOp
                   ELSE UNCHANGED <<txRes, txOp>>
    /\ UNCHANGED <<txPaired, txSeq, txReceiver, txKey, txLog, txCall, txTag>>

----------------------------------------------------------------------------
(* Receiver (transport package)                                            *)

\* a Device that is stored without its paired flag
DeviceUnflagged(key, paired, lastSeen) ==
    [PairingKey |-> key, IsPaired |-> FALSE, LastSeen |-> lastSeen]

\* newDevice / the fields of a Device that the registry's logic reads
Device(key, paired, lastSeen) ==
    [PairingKey |-> key, IsPaired |-> paired, LastSeen |-> lastSeen]

\* r.pairedDevices[id] = dev
Store(reg, id, dev) ==
    [i \in DOMAIN reg \cup {id} |-> IF i = id THEN dev ELSE reg[i]]

\* Receiver.IsPaired(deviceID)
IsPaired(deviceID) == deviceID \in DOMAIN rxReg /\ rxReg[deviceID].IsPaired

\* the buffer Receiver.SendAck hands to the driver
AckPacket == EncodePacket(Packet(rxId, PacketTypeAck, <<0, 0>>, TRUE, PutUint32(rxId)))

\* the buffer the Ack goroutine of the Data case hands to the driver
DataAckPacket(seqData) ==
    EncodePacket(Packet(rxId, PacketTypeAck, <<0, 0>>, TRUE, <<seqData[1], seqData[2]>>))

\* what the callback does: "plain" returns without touching the Receiver,
\* "reenter" calls a Receiver method that takes Receiver.mu (IsPaired)
CallbackKinds == {"plain", "reenter"}

\* ProcessPacket releases Receiver.mu by a deferred Unlock, when it returns:
\* the mutex is held at every statement between Lock and the return
LockHeldAtCallback == TRUE

\* the copy of the packet that the Data callback is handed
SafePacket(pkt) ==
    [SenderID |-> pkt.SenderID, Type |-> pkt.Type, Reserved |-> pkt.Reserved,
     Payload |-> IF pkt.HasPayload THEN pkt.Payload ELSE <<>>,
     locked |-> LockHeldAtCallback]

\* a callback returns unless it waits for a mutex its own goroutine holds
CallbackReturns(kind, locked) == ~(kind = "reenter" /\ locked)

\* the Data case's callback invocation
InvokeCallback(pkt) ==
    IF rxCallback = "none"
    THEN /\ rxCbCalls' = <<>>
         /\ rxBlocked' = rxBlocked
    ELSE /\ rxCbCalls' = <<SafePacket(pkt)>>
         /\ rxBlocked' = ~CallbackReturns(rxCallback, LockHeldAtCallback)

\* no callback is invoked
NoCallback ==
    /\ rxCbCalls' = <<>>
    /\ rxBlocked' = rxBlocked

\* a Pairing case that accepts a request whatever receiver it names
PairingAcceptedAnyTarget(pkt) ==
    /\ pkt.HasPayload
    /\ Len(pkt.Payload) >= 8

\* the Pairing case's condition: a payload of 8 bytes or more whose bytes 4..7 are this receiver's id
PairingAccepted(pkt) ==
    /\ pkt.HasPayload
    /\ Len(pkt.Payload) >= 8
    /\ Uint32(SubSeq(pkt.Payload, 5, 8)) = rxId

\* a Heartbeat case that registers a sender it does not know
HeartbeatCaseCreates(reg, id, t) ==
    IF id \in DOMAIN reg
    THEN [reg EXCEPT ![id].LastSeen = t]
    ELSE Store(reg, id, Device(Zero32, TRUE, t))

\* the registry after ProcessPacket's Heartbeat case: if paired { dev.UpdateLastSeen() }
HeartbeatCase(reg, id, t) ==
    IF id \in DOMAIN reg
    THEN [reg EXCEPT ![id].LastSeen = t]
    ELSE reg

\* Receiver.ProcessPacket(pkt) for pkt != nil, the whole call under the lock
ProcessPacket(pkt) ==
    LET paired == pkt.SenderID \in DOMAIN rxReg
    IN  /\ ~rxBlocked
        /\ rxLastOp' = "process"
        /\ IF pkt.Type = PacketTypeData /\ paired /\ pkt.HasPayload
           THEN InvokeCallback(pkt)
           ELSE NoCallback
        /\ IF pkt.Type = PacketTypePairing
           THEN IF PairingAccepted(pkt)
                THEN /\ rxReg' = Store(rxReg, pkt.SenderID,
                                       Device(Uint32(SubSeq(pkt.Payload, 1, 4)), TRUE, now))
                     /\ rxLog' = IF Len(AckPacket) < PacketHeaderSize
                                 THEN rxLog
                                 ELSE Append(rxLog, AckPacket)
                     /\ UNCHANGED rxAcks
                ELSE UNCHANGED <<rxReg, rxLog, rxAcks>>
           ELSE IF pkt.Type = PacketTypeHeartbeat
           THEN /\ rxReg' = HeartbeatCase(rxReg, pkt.SenderID, now)
                /\ UNCHANGED <<rxLog, rxAcks>>
           ELSE IF pkt.Type = PacketTypeData
           THEN IF paired /\ pkt.HasPayload
                THEN /\ rxReg' = [rxReg EXCEPT ![pkt.SenderID].LastSeen = now]
                     /\ rxAcks' = Append(rxAcks, DataAckPacket(pkt.Reserved))
                     /\ UNCHANGED rxLog
                ELSE UNCHANGED <<rxReg, rxLog, rxAcks>>
           ELSE UNCHANGED <<rxReg, rxLog, rxAcks>>

\* a Listen without the early return: every call goes on to set the flag
\* and to start a goroutine
ListenAlways ==
    /\ rxLastOp' = "listen"
    /\ rxLoops' = [rxLoops EXCEPT !.set = @ + 1]
    /\ UNCHANGED <<rxId, rxReg, rxListening, rxLog, rxRxQ, rxAcks, taskOn, taskWake, rxPre,
                   rxCallback, rxCbCalls, rxBlocked, rxRecv, rxLast, rxPair, rxHeld>>

\* Receiver.Listen(), the call and its test: if r.isListening { return }.
\* The flag is read without the mutex; a call that finds it clear goes on
Listen ==
    /\ rxLastOp' = "listen"
    /\ IF rxListening
       THEN UNCHANGED rxLoops
       ELSE rxLoops' = [rxLoops EXCEPT !.set = @ + 1]
    /\ UNCHANGED <<rxId, rxReg, rxListening, rxLog, rxRxQ, rxAcks, taskOn, taskWake, rxPre,
                   rxCallback, rxCbCalls, rxBlocked, rxRecv, rxLast, rxPair, rxHeld>>

\* Listen, the rest of a call that found the flag clear, whatever the flag
\* is by now: r.isListening = true; go func() { ... }().  The go statement
\* touches nothing another goroutine reads, and the new goroutine's first
\* statement, the loop's test, is LoopTest
ListenStart ==
    /\ rxLoops.set > 0
    /\ rxListening' = TRUE
    /\ rxLoops' = [rxLoops EXCEPT !.set = @ - 1, !.head = @ + 1]
    /\ UNCHANGED <<rxId, rxReg, rxLog, rxRxQ, rxAcks, taskOn, taskWake, rxLastOp, rxPre,
                   rxCallback, rxCbCalls, rxBlocked, rxRecv, rxLast, rxPair, rxHeld>>

\* no Listen call is between its test and its write
ListenReturned == rxLoops.set = 0

\* Receiver.RegisterCallback(PacketTypeData, cb)
RegisterCallback(kind) ==
    /\ ~rxBlocked
    /\ rxCallback' = kind
    /\ UNCHANGED <<rxId, rxReg, rxListening, rxLog, rxRxQ, rxAcks, taskOn, taskWake,
                   rxLastOp, rxPre, rxCbCalls, rxBlocked, rxRecv, rxLast,
                   rxLoops, rxPair, rxHeld>>

\* what one ProcessPacket call did to the driver: the buffers handed to Tx
\* before it returned, and the buffers left to goroutines it started
Handed ==
    [sync |-> SubSeq(rxLog', Len(rxLog) + 1, Len(rxLog')),
     async |-> SubSeq(rxAcks', Len(rxAcks) + 1, Len(rxAcks'))]

\* the call invokes the Data callback and the callback never returns: the
\* deferred Unlock is not executed
CallbackHangs(pkt) ==
    /\ pkt.Type = PacketTypeData
    /\ pkt.SenderID \in DOMAIN rxReg
    /\ pkt.HasPayload
    /\ rxCallback # "none"
    /\ ~CallbackReturns(rxCallback, LockHeldAtCallback)

\* the statements of one ProcessPacket(pkt) call that touch the mutex, the
\* driver, the goroutines or the callback, in the order they are executed
ProcessTrace(pkt) ==
    LET paired == pkt.SenderID \in DOMAIN rxReg
    IN  <<"Lock">>
        \o (IF pkt.Type = PacketTypePairing /\ PairingAccepted(pkt)
            THEN IF Len(AckPacket) < PacketHeaderSize THEN <<>> ELSE <<"Tx">>
            ELSE IF pkt.Type = PacketTypeData /\ paired /\ pkt.HasPayload
            THEN <<"go">> \o (IF rxCallback = "none" THEN <<>> ELSE <<"callback">>)
            ELSE <<>>)
        \o (IF CallbackHangs(pkt) THEN <<>> ELSE <<"Unlock">>)

\* history: the buffer the last ReceivePacket returned and what was done with it
Last(data, via) ==
    LET pkt == DecodePacket(data)
    IN  [data |-> data, pkt |-> pkt, reg |-> rxReg, now |-> now, out |-> Handed,
         trace |-> IF pkt.nil THEN <<>> ELSE ProcessTrace(pkt), via |-> via]

\* how many goroutines started by Listen are alive
LoopCount == rxLoops.head + rxLoops.rx + Len(rxLoops.got) + rxLoops.stuck

\* the buffers on their way through the Receiver: waiting in the driver, held
\* by a listening goroutine, or Acks not yet collected from the driver's log
InFlight == Len(rxRxQ) + Len(rxAcks) + Len(rxLog) + Len(rxLoops.got)

\* s without its k-th element
RemoveAt(s, k) == SubSeq(s, 1, k - 1) \o SubSeq(s, k + 1, Len(s))

\* the listening goroutine evaluates the loop's test: for r.isListening
LoopTest ==
    /\ rxLoops.head > 0
    /\ rxLoops' = IF rxListening
                  THEN [rxLoops EXCEPT !.head = @ - 1, !.rx = @ + 1]
                  ELSE [rxLoops EXCEPT !.head = @ - 1]
    /\ UNCHANGED <<rxId, rxReg, rxListening, rxLog, rxRxQ, rxAcks, taskOn, taskWake, rxLastOp,
                   rxPre, rxCallback, rxCbCalls, rxBlocked, rxRecv, rxLast, rxPair, rxHeld>>

\* a listening goroutine's ReceivePacket(100 ms) returns: driver.Rx found the
\* queue empty, or it took the first buffer, which DecodePacket rejects or
\* turns into the packet the goroutine holds from now on
LoopRx ==
    /\ rxLoops.rx > 0
    /\ IF rxRxQ = <<>>
       THEN /\ rxLoops' = [rxLoops EXCEPT !.head = @ + 1, !.rx = @ - 1]
            /\ UNCHANGED rxRxQ
       ELSE /\ rxRxQ' = Tail(rxRxQ)
            /\ rxLoops' = IF DecodePacket(Head(rxRxQ)).nil
                          THEN [rxLoops EXCEPT !.head = @ + 1, !.rx = @ - 1]
                          ELSE [rxLoops EXCEPT !.rx = @ - 1, !.got = Append(@, Head(rxRxQ))]
    /\ UNCHANGED <<rxId, rxReg, rxListening, rxLog, rxAcks, taskOn, taskWake, rxLastOp, rxPre,
                   rxCallback, rxCbCalls, rxBlocked, rxRecv, rxLast, rxPair, rxHeld>>

\* a listening goroutine's r.ProcessPacket(pkt) on the packet it holds, and
\* back to the loop's test; a call that never returns keeps the goroutine
LoopProcess(k) ==
    /\ k \in DOMAIN rxLoops.got
    /\ ProcessPacket(DecodePacket(rxLoops.got[k]))
    /\ rxLoops' = IF rxBlocked'
                  THEN [rxLoops EXCEPT !.stuck = @ + 1, !.got = RemoveAt(@, k)]
                  ELSE [rxLoops EXCEPT !.head = @ + 1, !.got = RemoveAt(@, k)]
    /\ UNCHANGED <<rxId, rxListening, rxRxQ, taskOn, taskWake, rxPre, rxCallback, rxRecv,
                   rxPair, rxHeld>>

\* the three steps of a listening goroutine, with the rest of the state
ListenLoopTest ==
    /\ LoopTest
    /\ UNCHANGED <<codecVars, otherVars, txVars, envVars>>

ListenLoopRx ==
    /\ LoopRx
    /\ UNCHANGED <<codecVars, otherVars, txVars, envVars>>

ListenLoopProcess ==
    /\ \E k \in DOMAIN rxLoops.got : LoopProcess(k)
    /\ UNCHANGED rxLast
    /\ UNCHANGED <<codecVars, otherVars, txVars, envVars>>

\* the same step; the history keeps what was processed
ListenLoopProcessLast ==
    /\ \E k \in DOMAIN rxLoops.got :
          /\ LoopProcess(k)
          /\ rxLast' = Last(rxLoops.got[k], "Listen")
    /\ UNCHANGED <<codecVars, otherVars, txVars, envVars>>

\* one Ack goroutine started by the Data case runs: driver.Tx(data)
AckTaskRun ==
    /\ \E k \in DOMAIN rxAcks :
          /\ rxLog' = IF Len(rxAcks[k]) >= PacketHeaderSize
                      THEN Append(rxLog, rxAcks[k])
                      ELSE rxLog
          /\ rxAcks' = SubSeq(rxAcks, 1, k - 1) \o SubSeq(rxAcks, k + 1, Len(rxAcks))
    /\ UNCHANGED <<rxId, rxReg, rxListening, rxRxQ, taskOn, taskWake, rxLastOp, rxPre, appVars>>

\* Receiver.StopListening()
StopListening ==
    /\ rxListening' = FALSE
    /\ rxLastOp' = "stop"
    /\ UNCHANGED <<rxId, rxReg, rxLog, rxRxQ, rxAcks, taskOn, taskWake, rxPre, appVars>>

\* a ReceiveData that returns the payload of a Data packet from any sender
RecvAcceptsAnySender(pkt, reg) == pkt.Type = PacketTypeData

\* ReceiveData's test after ProcessPacket: a Data packet whose sender is in the registry
RecvAccepts(pkt, reg) ==
    /\ pkt.Type = PacketTypeData
    /\ pkt.SenderID \in DOMAIN reg

\* Receiver.ReceiveData(), up to the first turn of its loop
ReceiveData ==
    /\ rxRecv.pc = "idle"
    /\ IF DOMAIN rxReg = {}
       THEN rxRecv' = [IdleRecv EXCEPT !.res = "NotPaired", !.empty = TRUE]
       ELSE rxRecv' = [IdleRecv EXCEPT !.pc = "poll", !.polls = RecvPolls, !.res = "pending"]
    /\ UNCHANGED <<rxId, rxReg, rxListening, rxLog, rxRxQ, rxAcks, taskOn, taskWake,
                   rxLastOp, rxPre, rxCallback, rxCbCalls, rxBlocked, rxLast,
                   rxLoops, rxPair, rxHeld>>

\* ReceiveData, the head of a turn of its loop before the deadline:
\* ReceivePacket(100 ms) and the two tests of what it returned.  Nothing here
\* takes Receiver.mu.  History: got keeps every buffer the call received
RecvPoll ==
    /\ rxRecv.pc = "poll"
    /\ rxRecv.polls > 0
    /\ IF rxRxQ = <<>>
       THEN /\ rxRecv' = [rxRecv EXCEPT !.polls = @ - 1, !.rx = @ + 1]
            /\ UNCHANGED rxRxQ
       ELSE LET data == Head(rxRxQ)
                pkt == DecodePacket(data)
                entry == [data |-> data, processed |-> FALSE, reg |-> rxReg,
                          checked |-> FALSE, at |-> rxReg]
            IN  /\ rxRxQ' = Tail(rxRxQ)
                /\ rxRecv' = IF pkt.nil \/ ~pkt.HasPayload
                             THEN [rxRecv EXCEPT !.rx = @ + 1, !.got = Append(@, entry)]
                             ELSE [rxRecv EXCEPT !.rx = @ + 1, !.got = Append(@, entry),
                                                 !.pc = "process", !.cur = data]
    /\ UNCHANGED <<rxId, rxReg, rxListening, rxLog, rxAcks, taskOn, taskWake, rxLastOp, rxPre,
                   rxCallback, rxCbCalls, rxBlocked, rxLast, rxLoops, rxPair, rxHeld>>

\* ReceiveData, r.ProcessPacket(packet); a Data packet goes on to the lookup,
\* any other packet to the next turn.  History: the buffer is marked as
\* processed, with the registry ProcessPacket found
RecvProcess ==
    /\ rxRecv.pc = "process"
    /\ LET pkt == DecodePacket(rxRecv.cur)
           n == Len(rxRecv.got)
       IN  /\ ProcessPacket(pkt)
           /\ rxLast' = Last(rxRecv.cur, "ReceiveData")
           /\ rxRecv' = IF rxBlocked'
                        THEN rxRecv
                        ELSE IF pkt.Type = PacketTypeData
                        THEN [rxRecv EXCEPT !.pc = "lookup", !.got[n].processed = TRUE,
                                            !.got[n].reg = rxReg]
                        ELSE [rxRecv EXCEPT !.pc = "poll", !.cur = <<>>,
                                            !.got[n].processed = TRUE, !.got[n].reg = rxReg]
    /\ UNCHANGED <<rxId, rxListening, rxRxQ, taskOn, taskWake, rxPre, rxCallback, rxLoops,
                   rxPair, rxHeld>>

\* ReceiveData, the lookup of the Data packet's sender under the lock, and
\* the return.  History: the buffer keeps the registry the lookup found
RecvLookup ==
    /\ rxRecv.pc = "lookup"
    /\ ~rxBlocked
    /\ LET pkt == DecodePacket(rxRecv.cur)
           n == Len(rxRecv.got)
       IN  rxRecv' = IF RecvAccepts(pkt, rxReg)
                     THEN [rxRecv EXCEPT !.pc = "idle", !.res = "ok", !.data = pkt.Payload,
                                         !.cur = <<>>, !.got[n].checked = TRUE,
                                         !.got[n].at = rxReg]
                     ELSE [rxRecv EXCEPT !.pc = "poll", !.cur = <<>>,
                                         !.got[n].checked = TRUE, !.got[n].at = rxReg]
    /\ UNCHANGED <<rxId, rxReg, rxListening, rxLog, rxRxQ, rxAcks, taskOn, taskWake,
                   rxLastOp, rxPre, rxCallback, rxCbCalls, rxBlocked, rxLast,
                   rxLoops, rxPair, rxHeld>>

\* ReceiveData, the 5000 ms have passed
RecvDeadline ==
    /\ rxRecv.pc = "poll"
    /\ rxRecv.polls = 0
    /\ rxRecv' = [rxRecv EXCEPT !.pc = "idle", !.res = "Timeout"]
    /\ UNCHANGED <<rxId, rxReg, rxListening, rxLog, rxRxQ, rxAcks, taskOn, taskWake,
                   rxLastOp, rxPre, rxCallback, rxCbCalls, rxBlocked, rxLast,
                   rxLoops, rxPair, rxHeld>>

\* a StartPairing that leaves the flag as it finds it when it returns
RestoreListeningNever(was, cur) == cur

\* Receiver.StartPairing's two return paths: if !wasListening { r.isListening = false }
RestoreListening(was, cur) == IF ~was THEN FALSE ELSE cur

\* Receiver.StartPairing(), up to the first turn of its loop
ReceiverStartPairing ==
    /\ rxPair.pc = "idle"
    /\ rxPair' = [pc |-> "poll", polls |-> ReceiverPairPolls, was |-> rxListening,
                  res |-> "pending", got |-> <<>>, cur |-> <<>>]
    /\ rxListening' = TRUE
    /\ UNCHANGED <<rxId, rxReg, rxLog, rxRxQ, rxAcks, taskOn, taskWake, rxLastOp, rxPre,
                   rxCallback, rxCbCalls, rxBlocked, rxRecv, rxLast, rxLoops, rxHeld>>

\* Receiver.StartPairing, the head of a turn of its loop before the deadline:
\* ReceivePacket(100 ms) and the test for a Pairing packet
ReceiverPairingPoll ==
    /\ rxPair.pc = "poll"
    /\ rxPair.polls > 0
    /\ IF rxRxQ = <<>>
       THEN /\ rxPair' = [rxPair EXCEPT !.polls = @ - 1]
            /\ UNCHANGED rxRxQ
       ELSE LET data == Head(rxRxQ)
                pkt == DecodePacket(data)
                mine == ~pkt.nil /\ pkt.Type = PacketTypePairing
                entry == [data |-> data, processed |-> FALSE, paired |-> FALSE]
            IN  /\ rxRxQ' = Tail(rxRxQ)
                /\ rxPair' = IF mine
                             THEN [rxPair EXCEPT !.got = Append(@, entry),
                                                 !.pc = "process", !.cur = data]
                             ELSE [rxPair EXCEPT !.got = Append(@, entry)]
    /\ UNCHANGED <<rxId, rxReg, rxListening, rxLog, rxAcks, taskOn, taskWake, rxLastOp, rxPre,
                   rxCallback, rxCbCalls, rxBlocked, rxRecv, rxLast, rxLoops, rxHeld>>

\* Receiver.StartPairing, r.ProcessPacket(pkt) for the Pairing packet.
\* History: the buffer is marked as processed
ReceiverPairingProcess ==
    /\ rxPair.pc = "process"
    /\ ProcessPacket(DecodePacket(rxPair.cur))
    /\ rxLast' = Last(rxPair.cur, "StartPairing")
    /\ rxPair' = IF rxBlocked'
                 THEN rxPair
                 ELSE [rxPair EXCEPT !.pc = "check", !.got[Len(rxPair.got)].processed = TRUE]
    /\ UNCHANGED <<rxId, rxListening, rxRxQ, taskOn, taskWake, rxPre, rxCallback, rxRecv,
                   rxLoops, rxHeld>>

\* Receiver.StartPairing, the test of the registry under the lock:
\* r.mu.Lock(); paired := len(r.pairedDevices) > 0; r.mu.Unlock()
ReceiverPairingCheck ==
    LET paired == DOMAIN rxReg # {}
        n == Len(rxPair.got)
    IN  /\ rxPair.pc = "check"
        /\ ~rxBlocked
        /\ rxPair' = IF paired
                     THEN [rxPair EXCEPT !.pc = "return", !.cur = <<>>, !.got[n].paired = TRUE]
                     ELSE [rxPair EXCEPT !.pc = "poll", !.cur = <<>>]
        /\ UNCHANGED <<rxId, rxReg, rxListening, rxLog, rxRxQ, rxAcks, taskOn, taskWake,
                       rxLastOp, rxPre, rxCallback, rxCbCalls, rxBlocked, rxRecv, rxLast,
                       rxLoops, rxHeld>>

\* Receiver.StartPairing, the return after the test found a paired device,
\* with the mutex released: if !wasListening { r.isListening = false }; return nil
ReceiverPairingReturn ==
    /\ rxPair.pc = "return"
    /\ rxListening' = RestoreListening(rxPair.was, rxListening)
    /\ rxPair' = [rxPair EXCEPT !.pc = "idle", !.res = "ok"]
    /\ UNCHANGED <<rxId, rxReg, rxLog, rxRxQ, rxAcks, taskOn, taskWake, rxLastOp, rxPre,
                   rxCallback, rxCbCalls, rxBlocked, rxRecv, rxLast, rxLoops, rxHeld>>

\* Receiver.StartPairing, the deadline has passed
ReceiverPairingDeadline ==
    /\ rxPair.pc = "poll"
    /\ rxPair.polls = 0
    /\ rxListening' = RestoreListening(rxPair.was, rxListening)
    /\ rxPair' = [rxPair EXCEPT !.pc = "idle", !.res = "Timeout"]
    /\ UNCHANGED <<rxId, rxReg, rxLog, rxRxQ, rxAcks, taskOn, taskWake, rxLastOp, rxPre,
                   rxCallback, rxCbCalls, rxBlocked, rxRecv, rxLast, rxLoops, rxHeld>>

\* an eviction that marks the stale devices unpaired and forgets to delete them
EvictStaleMarkOnly(reg, t) ==
    [id \in DOMAIN reg |->
        IF (t - reg[id].LastSeen) > DeviceTimeout
        THEN [reg[id] EXCEPT !.IsPaired = FALSE]
        ELSE reg[id]]

\* an eviction that also drops a device exactly DeviceTimeout old
EvictStaleInclusive(reg, t) ==
    [id \in {i \in DOMAIN reg : ~((t - reg[i].LastSeen) >= DeviceTimeout)} |-> reg[id]]

\* the registry CleanupDeadDevices leaves behind when the clock reads t
EvictStale(reg, t) ==
    [id \in {i \in DOMAIN reg : ~((t - reg[i].LastSeen) > DeviceTimeout)} |-> reg[id]]

\* a removal that forgets to clear the flag of the Device it removes
UnpairForgotten(dev) == dev

\* CleanupDeadDevices' write to a stale Device before the delete: device.IsPaired = false
Unpair(dev) == [dev EXCEPT !.IsPaired = FALSE]

\* Receiver.GetPairedDevices(): the pointers of the registry's paired Devices
GetPairedDevices ==
    /\ ~rxBlocked
    /\ rxHeld' = rxHeld \cup {[id |-> i, inReg |-> TRUE, IsPaired |-> rxReg[i].IsPaired] :
                                  i \in {j \in DOMAIN rxReg : rxReg[j].IsPaired}}
    /\ UNCHANGED <<rxId, rxReg, rxListening, rxLog, rxRxQ, rxAcks, taskOn, taskWake, rxLastOp,
                   rxPre, callVars>>

\* Receiver.CleanupDeadDevices()
CleanupDeadDevices ==
    /\ ~rxBlocked
    /\ rxReg' = EvictStale(rxReg, now)
    /\ rxHeld' = {IF h.inReg /\ h.id \notin DOMAIN EvictStale(rxReg, now)
                  THEN [id |-> h.id, inReg |-> FALSE, IsPaired |-> Unpair(rxReg[h.id]).IsPaired]
                  ELSE h : h \in rxHeld}
    /\ rxPre' = [reg |-> rxReg, now |-> now]
    /\ rxLastOp' = "cleanup"

\* Receiver.StartCleanupTask(): the goroutine starts with a Sleep of DeviceTimeout / 2
StartCleanupTask ==
    /\ ~taskOn
    /\ taskOn' = TRUE
    /\ taskWake' = now + DeviceTimeout \div 2
    /\ UNCHANGED <<rxId, rxReg, rxListening, rxLog, rxRxQ, rxAcks, rxLastOp, rxPre, appVars>>

\* the cleanup goroutine wakes up, cleans up and goes back to sleep
CleanupTaskRun ==
    /\ taskOn
    /\ now >= taskWake
    /\ CleanupDeadDevices
    /\ taskWake' = now + DeviceTimeout \div 2
    /\ UNCHANGED <<rxId, rxListening, rxLog, rxRxQ, rxAcks, taskOn, callVars>>

\* Receiver.StartHeartbeatTask(): the goroutine starts and goes straight to its
\* first CleanupDeadDevices
ReceiverStartHeartbeatTask ==
    /\ ~rxBeat.on
    /\ rxBeat' = [on |-> TRUE, wake |-> now]
    /\ UNCHANGED rxVars

\* one turn of that goroutine: CleanupDeadDevices, then Sleep(HeartbeatInterval / 2)
ReceiverHeartbeatTaskRun ==
    /\ rxBeat.on
    /\ now >= rxBeat.wake
    /\ CleanupDeadDevices
    /\ rxBeat' = [rxBeat EXCEPT !.wake = now + HeartbeatInterval \div 2]
    /\ UNCHANGED <<rxId, rxListening, rxLog, rxRxQ, rxAcks, taskOn, taskWake, callVars>>

\* MockDriver.GetTxLog(): a copy of the log, taken under the driver's mutex
GetTxLog(log) == [i \in 1..Len(log) |-> log[i]]

\* MockDriver.InjectRx(data): a copy of data is appended to the queue
InjectRx(queue, data) == Append(queue, data)

\* ConnectDrivers' goroutine, each half of a turn in its critical sections:
\* txLog := a.GetTxLog()  (b.GetTxLog() in the second half)
ForwardGetTxLog ==
    /\ linked
    /\ fwd.pc = "get"
    /\ fwd' = [fwd EXCEPT !.pc = "inject",
                          !.log = IF fwd.side = "a" THEN GetTxLog(txLog) ELSE GetTxLog(rxLog)]
    /\ UNCHANGED <<peerSent, linked, now, silent>>
    /\ UNCHANGED <<codecVars, otherVars, txVars, rxVars>>

\* for _, data := range txLog { b.InjectRx(data) }, one buffer of the copy
ForwardInjectRx ==
    /\ linked
    /\ fwd.pc = "inject"
    /\ fwd.log # <<>>
    /\ fwd' = [fwd EXCEPT !.log = Tail(@)]
    /\ IF fwd.side = "a"
       THEN /\ rxRxQ' = InjectRx(rxRxQ, Head(fwd.log))
            /\ UNCHANGED txRxQ
       ELSE /\ txRxQ' = InjectRx(txRxQ, Head(fwd.log))
            /\ UNCHANGED rxRxQ
    /\ UNCHANGED <<txPaired, txSeq, txReceiver, txKey, txLog, txOp, txRes, txCall, txTag, txRcvd>>
    /\ UNCHANGED <<rxId, rxReg, rxListening, rxLog, rxAcks, taskOn, taskWake, rxLastOp, rxPre, appVars>>
    /\ UNCHANGED <<peerSent, linked, now, silent>>
    /\ UNCHANGED <<codecVars, otherVars>>

\* a.ClearTxLog() after the range loop: the log is emptied, with whatever was
\* appended to it since the copy; the goroutine goes on to the other half
ForwardClearTxLog ==
    /\ linked
    /\ fwd.pc = "inject"
    /\ fwd.log = <<>>
    /\ fwd' = [pc |-> "get", side |-> IF fwd.side = "a" THEN "b" ELSE "a", log |-> <<>>]
    /\ IF fwd.side = "a"
       THEN /\ txLog' = <<>>
            /\ UNCHANGED rxLog
       ELSE /\ rxLog' = <<>>
            /\ UNCHANGED txLog
    /\ UNCHANGED <<txPaired, txSeq, txReceiver, txKey, txRxQ, txOp, txRes, txCall, txTag, txRcvd>>
    /\ UNCHANGED <<rxId, rxReg, rxListening, rxRxQ, rxAcks, taskOn, taskWake, rxLastOp, rxPre, appVars>>
    /\ UNCHANGED <<peerSent, linked, now, silent>>
    /\ UNCHANGED <<codecVars, otherVars>>

----------------------------------------------------------------------------
(* The codec exercised as a state machine: a Frame is encoded, the buffer  *)
(* is optionally damaged on the air, and the buffer is decoded.            *)

\* longest payload enumerated byte by byte
MaxShortLen == 2
\* how far beyond MaxPayloadSize the oversized payloads reach
MaxOversize == 2

ByteVals == {1, 170}

RECURSIVE SeqsUpTo(_, _)
SeqsUpTo(S, n) ==
    IF n = 0 THEN {<<>>}
    ELSE LET shorter == SeqsUpTo(S, n - 1)
         IN  shorter \cup {Append(s, x) : s \in {t \in shorter : Len(t) = n - 1}, x \in S}

\* a payload of n bytes that differ from position to position
Ramp(n) == [i \in 1..n |-> (7 * i) % 251]

CodecPayloads ==
    SeqsUpTo(ByteVals, MaxShortLen)
      \cup {<<1, 2, 3, 4, 5>>}
      \cup {Ramp(n) : n \in (MaxPayloadSize - 1)..(MaxPayloadSize + MaxOversize)}
      \cup {Ramp(2 * MaxPayloadSize)}

\* <<sender identity, sequence>>: 0xCAFE with 42, 0x87654321 with 0xFFFFFFFF
CodecHeaders == {<<U32(0, 51966), U32(0, 42)>>, <<U32(34661, 17185), U32(65535, 65535)>>}
CodecTypes == {FrameTypePairing, FrameTypeData, 255}

CodecFrames ==
    {Frame(h[1], t, h[2], TRUE, p) : h \in CodecHeaders, t \in CodecTypes, p \in CodecPayloads}
      \cup {Frame(h[1], FrameTypeHeartbeat, h[2], FALSE, <<>>) : h \in CodecHeaders}

\* buffers that never came out of EncodeFrame: nil, two bytes, a bad length byte
RawBuffers ==
    {<<>>, <<1, 2>>,
     <<255, 239, 190, 0, 0, 1, 1, 0, 0, 0>> \o MakeBytes(10),
     <<14, 239, 190, 0, 0, 2, 1, 0, 0, 0, 0, 0, 0, 0>>}

\* data[pos] ^= 1 << bit  (pos 0-based)
FlipBit(data, pos, bit) ==
    LET mask == 2 ^ bit
        old == data[pos + 1]
        new == IF (old \div mask) % 2 = 1 THEN old - mask ELSE old + mask
    IN  [data EXCEPT ![pos + 1] = new]

CodecInit ==
    /\ cFrame \in CodecFrames
    /\ cGiven = cFrame
    /\ cWire = <<>>
    /\ cOut = NoFrame
    /\ cPc = "start"
    /\ cHow = "clean"
    /\ TxOff
    /\ RxOff
    /\ EnvOff
    /\ OtherOff

CodecEncode ==
    /\ cPc = "start"
    /\ cWire' = EncodeFrame(cFrame)
    /\ cFrame' = EncodedFrame(cFrame)
    /\ cPc' = "encoded"
    /\ UNCHANGED <<cGiven, cOut, cHow>>
    /\ UNCHANGED <<txVars, rxVars, envVars, otherVars>>

\* a bit of one of the 4 CRC bytes is flipped
CodecFlipCRC ==
    /\ cPc = "encoded"
    /\ \E i \in 0..(CRCSize - 1), bit \in 0..7 :
          cWire' = FlipBit(cWire, Len(cWire) - TerminalSize - CRCSize + i, bit)
    /\ cPc' = "damaged"
    /\ cHow' = "crcflip"
    /\ UNCHANGED <<cFrame, cGiven, cOut>>
    /\ UNCHANGED <<txVars, rxVars, envVars, otherVars>>

\* the terminator byte is replaced
CodecReplaceTerminal ==
    /\ cPc = "encoded"
    /\ \E v \in {0, 84, 86, 170, 255} :
          cWire' = [cWire EXCEPT ![Len(cWire)] = v]
    /\ cPc' = "damaged"
    /\ cHow' = "term"
    /\ UNCHANGED <<cFrame, cGiven, cOut>>
    /\ UNCHANGED <<txVars, rxVars, envVars, otherVars>>

\* only the first n < 15 bytes arrive
CodecTruncate ==
    /\ cPc = "encoded"
    /\ \E n \in 0..(FrameHeaderSize + CRCSize + TerminalSize - 1) :
          cWire' = SubSeq(cWire, 1, n)
    /\ cPc' = "damaged"
    /\ cHow' = "short"
    /\ UNCHANGED <<cFrame, cGiven, cOut>>
    /\ UNCHANGED <<txVars, rxVars, envVars, otherVars>>

\* a bit of the header (sender, type, sequence) is flipped: not covered by the CRC
CodecFlipHeader ==
    /\ cPc = "encoded"
    /\ \E pos \in {1, 5, 9}, bit \in {0, 7} :
          cWire' = FlipBit(cWire, pos, bit)
    /\ cPc' = "damaged"
    /\ cHow' = "other"
    /\ UNCHANGED <<cFrame, cGiven, cOut>>
    /\ UNCHANGED <<txVars, rxVars, envVars, otherVars>>

\* a buffer from elsewhere is handed to DecodeFrame
CodecRaw ==
    /\ cPc = "start"
    /\ cWire' \in RawBuffers
    /\ cPc' = "damaged"
    /\ cHow' = "raw"
    /\ UNCHANGED <<cFrame, cGiven, cOut>>
    /\ UNCHANGED <<txVars, rxVars, envVars, otherVars>>

CodecDecode ==
    /\ cPc \in {"encoded", "damaged"}
    /\ cOut' = DecodeFrame(cWire)
    /\ cPc' = "decoded"
    /\ UNCHANGED <<cFrame, cGiven, cWire, cHow>>
    /\ UNCHANGED <<txVars, rxVars, envVars, otherVars>>

CodecNext ==
    \/ CodecEncode
    \/ CodecFlipCRC
    \/ CodecReplaceTerminal
    \/ CodecTruncate
    \/ CodecFlipHeader
    \/ CodecRaw
    \/ CodecDecode

SpecCodec == CodecInit /\ [][CodecNext]_vars

----------------------------------------------------------------------------
(* The Transmitter exercised by an application that makes one call after   *)
(* another, against a peer that puts buffers on the air (SpecTx)           *)

\* how many Transmitter calls the application makes
MaxCalls == 2
\* how many buffers the peer puts on the air
MaxInject == 2
\* how many buffers wait in a driver's receive queue
MaxQueue == 1
\* the arguments handed to SendDataReliable: <<data, maxRetries>>
ReliableArgs == {<<<<7>>, 0>>, <<<<7>>, 1>>, <<<<7>>, 3>>, <<Ramp(MaxPayloadSize + 1), 3>>}

\* payloads handed to the Send calls: one byte, and one byte more than fits
TxPayloads == {<<7>>, Ramp(MaxPayloadSize + 1)}

\* the counter starts at 0; at 0xFFFFFFFF a long-lived session wraps
SeqStarts == {Zero32, U32(65535, 65535)}

\* the sequence number the peer answers to: that of the call in progress, or the next one
PeerSeq == IF txOp.name = "idle" THEN txSeq ELSE txOp.seq

\* what the peer puts on the air
PeerFrames ==
    {EncodeFrame(Frame(RxId, FrameTypeAck, PeerSeq, TRUE, PutUint32(RxId))),
     EncodeFrame(Frame(RxId, FrameTypeAck, Inc32(PeerSeq), TRUE, PutUint32(RxId))),
     EncodeFrame(Frame(RxId, FrameTypeAck, PeerSeq, TRUE, PutUint32(OtherId))),
     EncodeFrame(Frame(RxId, FrameTypeData, PeerSeq, TRUE, PutUint32(RxId)))}

TxInit ==
    /\ CodecOff
    /\ RxOff
    /\ EnvOff
    /\ OtherOff
    /\ txPaired = FALSE
    /\ txSeq \in SeqStarts
    /\ txReceiver = Zero32
    /\ txKey = TxKey
    /\ txLog = <<>>
    /\ txRxQ = <<>>
    /\ txOp = IdleOp
    /\ txRes = "none"
    /\ txCall = NoCall
    /\ txTag = <<>>
    /\ txRcvd = <<>>

TxSendFrame ==
    /\ txCall.n < MaxCalls
    /\ \E t \in {FrameTypePairing, FrameTypeData}, p \in TxPayloads :
          SendFrame(t, TRUE, p)
    /\ UNCHANGED <<codecVars, otherVars, rxVars, envVars>>

TxSendData ==
    /\ txCall.n < MaxCalls
    /\ \E p \in TxPayloads : SendData(p)
    /\ UNCHANGED <<codecVars, otherVars, rxVars, envVars>>

TxSendHeartbeat ==
    /\ txCall.n < MaxCalls
    /\ SendHeartbeat
    /\ UNCHANGED <<codecVars, otherVars, rxVars, envVars>>

TxStartPairing ==
    /\ txCall.n < MaxCalls
    /\ StartPairing(RxId)
    /\ UNCHANGED <<codecVars, otherVars, rxVars, envVars>>

TxPairingPoll ==
    /\ PairingPoll
    /\ UNCHANGED <<codecVars, otherVars, rxVars, envVars>>

TxPairingDeadline ==
    /\ PairingDeadline
    /\ UNCHANGED <<codecVars, otherVars, rxVars, envVars>>

\* the peer may send MaxInject buffers during the call, whatever it sent before
TxSendDataReliable ==
    /\ txCall.n < MaxCalls
    /\ \E a \in ReliableArgs : SendDataReliable(a[1], a[2])
    /\ peerSent' = 0
    /\ UNCHANGED <<codecVars, otherVars, rxVars, linked, fwd, now, silent>>

TxReliableTransmit ==
    /\ ReliableTransmit
    /\ UNCHANGED <<codecVars, otherVars, rxVars, envVars>>

TxReliablePoll ==
    /\ ReliablePoll
    /\ UNCHANGED <<codecVars, otherVars, rxVars, envVars>>

TxReliableWindowEnd ==
    /\ ReliableWindowEnd
    /\ UNCHANGED <<codecVars, otherVars, rxVars, envVars>>

TxReliableGiveUp ==
    /\ ReliableGiveUp
    /\ UNCHANGED <<codecVars, otherVars, rxVars, envVars>>

\* the peer transmits: the buffer reaches the transmitter's driver
PeerAir ==
    /\ peerSent < MaxInject
    /\ Len(txRxQ) < MaxQueue
    /\ \E data \in PeerFrames : txRxQ' = Append(txRxQ, data)
    /\ peerSent' = peerSent + 1
    /\ UNCHANGED <<txPaired, txSeq, txReceiver, txKey, txLog, txOp, txRes, txCall, txTag, txRcvd>>
    /\ UNCHANGED <<codecVars, otherVars, rxVars, linked, fwd, now, silent>>

TxNext ==
    \/ TxSendFrame
    \/ TxSendData
    \/ TxSendHeartbeat
    \/ TxStartPairing
    \/ TxPairingPoll
    \/ TxPairingDeadline
    \/ TxSendDataReliable
    \/ TxReliableTransmit
    \/ TxReliablePoll
    \/ TxReliableWindowEnd
    \/ TxReliableGiveUp
    \/ PeerAir

SpecTx == TxInit /\ [][TxNext]_vars

----------------------------------------------------------------------------
(* StartPairing against a peer that answers with frames of every kind      *)
(* (SpecAck)                                                               *)

\* what the peer puts on the air: as before, and an Ack whose payload is a byte short
AckFrames ==
    PeerFrames \cup
        {EncodeFrame(Frame(RxId, FrameTypeAck, PeerSeq, TRUE, SubSeq(PutUint32(RxId), 1, 3)))}

\* the peer transmits: the buffer reaches the transmitter's driver
AckPeerAir ==
    /\ peerSent < MaxInject
    /\ Len(txRxQ) < MaxQueue
    /\ \E data \in AckFrames : txRxQ' = Append(txRxQ, data)
    /\ peerSent' = peerSent + 1
    /\ UNCHANGED <<txPaired, txSeq, txReceiver, txKey, txLog, txOp, txRes, txCall, txTag, txRcvd>>
    /\ UNCHANGED <<codecVars, otherVars, rxVars, linked, fwd, now, silent>>

AckNext ==
    \/ TxStartPairing
    \/ TxPairingPoll
    \/ TxPairingDeadline
    \/ TxSendData
    \/ TxSendHeartbeat
    \/ AckPeerAir

SpecAck == TxInit /\ [][AckNext]_vars

----------------------------------------------------------------------------
(* SendFrame and SendData with payloads around the size limit (SpecSend)   *)

\* payloads: one byte, the longest that fits, one byte more
SendPayloads == {<<7>>, Ramp(MaxPayloadSize), Ramp(MaxPayloadSize + 1)}

\* a Transmitter, paired or not (the tests set the flag directly)
SendInit ==
    /\ CodecOff
    /\ RxOff
    /\ EnvOff
    /\ OtherOff
    /\ txPaired \in BOOLEAN
    /\ txSeq \in SeqStarts
    /\ txReceiver = Zero32
    /\ txKey = TxKey
    /\ txLog = <<>>
    /\ txRxQ = <<>>
    /\ txOp = IdleOp
    /\ txRes = "none"
    /\ txCall = NoCall
    /\ txTag = <<>>
    /\ txRcvd = <<>>

SendSendFrame ==
    /\ txCall.n < MaxCalls
    /\ \E t \in {FrameTypePairing, FrameTypeData, FrameTypeHeartbeat}, p \in SendPayloads :
          SendFrame(t, TRUE, p)
    /\ UNCHANGED <<codecVars, otherVars, rxVars, envVars>>

SendSendData ==
    /\ txCall.n < MaxCalls
    /\ \E p \in SendPayloads : SendData(p)
    /\ UNCHANGED <<codecVars, otherVars, rxVars, envVars>>

SendNext ==
    \/ SendSendFrame
    \/ SendSendData

SpecSend == SendInit /\ [][SendNext]_vars

----------------------------------------------------------------------------
(* A Transmitter and a Receiver whose drivers are wired together           *)
(* (SpecPair): the receiver listens, the transmitter starts pairing.  Both *)
(* devices are the ones of the Packet format                               *)

\* pairing keys: 0x12345678, and 0xBEEF0001
PairKeys == {TxKey, U32(48879, 1)}

\* receiver identities: 0xBEEF, and 0xBEEFBEEF
PairRxIds == {RxId, U32(48879, 48879)}

\* where the transmitter's 16-bit counter stands: new, and about to wrap
PairSeqStarts == {Zero32, U32(0, 65535)}

PairInit ==
    /\ CodecOff
    /\ OtherOff
    /\ txPaired = FALSE
    /\ txSeq \in PairSeqStarts
    /\ txReceiver = Zero32
    /\ txKey \in PairKeys
    /\ txLog = <<>>
    /\ txRxQ = <<>>
    /\ txOp = IdleOp
    /\ txRes = "none"
    /\ txCall = NoCall
    /\ txTag = <<>>
    /\ txRcvd = <<>>
    /\ rxId \in PairRxIds
    /\ rxReg = <<>>
    /\ rxListening = FALSE
    /\ rxLog = <<>>
    /\ rxRxQ = <<>>
    /\ rxAcks = <<>>
    /\ taskOn = FALSE
    /\ taskWake = 0
    /\ rxLastOp = "none"
    /\ rxPre = NoPre
    /\ AppOff
    /\ peerSent = 0
    /\ linked = TRUE
    /\ fwd = ForwardStart
    /\ now = 0
    /\ silent = {}

\* rx.Listen()
PairListen ==
    /\ ~rxListening
    /\ ListenReturned
    /\ Listen
    /\ UNCHANGED <<codecVars, otherVars, txVars, envVars>>

\* the call goes on: the flag is set and the goroutine started
PairListenStart ==
    /\ ListenStart
    /\ UNCHANGED <<codecVars, otherVars, txVars, envVars>>

\* tx.StartPairing(rxID), with the receiver listening
PairStartPairing ==
    /\ rxListening
    /\ txCall.n < MaxCalls
    /\ PacketStartPairing(rxId)
    /\ UNCHANGED <<codecVars, otherVars, rxVars, envVars>>

PairPairingPoll ==
    /\ PacketPairingPoll
    /\ UNCHANGED <<codecVars, otherVars, rxVars, envVars>>

\* return proto.ErrTimeout: the same statement in both Transmitters
PairPairingDeadline ==
    /\ PairingDeadline
    /\ UNCHANGED <<codecVars, otherVars, rxVars, envVars>>

\* tx.SendData after the pairing attempt
PairSendData ==
    /\ txCall.n \in 1..(MaxCalls - 1)
    /\ PacketSendData(<<1, 2, 3>>)
    /\ UNCHANGED <<codecVars, otherVars, rxVars, envVars>>

\* tx.SendHeartbeat after the pairing attempt
PairSendHeartbeat ==
    /\ txCall.n \in 1..(MaxCalls - 1)
    /\ PacketSendHeartbeat
    /\ UNCHANGED <<codecVars, otherVars, rxVars, envVars>>

\* the goroutine ProcessPacket starts for the Ack of a Data packet
PairAckTaskRun ==
    /\ AckTaskRun
    /\ UNCHANGED <<codecVars, otherVars, txVars, envVars>>

PairNext ==
    \/ PairListen
    \/ PairListenStart
    \/ PairStartPairing
    \/ PairPairingPoll
    \/ PairPairingDeadline
    \/ PairSendData
    \/ PairSendHeartbeat
    \/ ForwardGetTxLog
    \/ ForwardInjectRx
    \/ ForwardClearTxLog
    \/ ListenLoopTest
    \/ ListenLoopRx
    \/ ListenLoopProcessLast
    \/ PairAckTaskRun

SpecPair == PairInit /\ [][PairNext]_vars

----------------------------------------------------------------------------
(* The Transmitter of the Frame format wired to the Receiver (SpecCross):  *)
(* the devices of TestTransmitter_Pairing as the sources have them, the    *)
(* Transmitter that sends Frames and the Receiver that decodes Packets     *)

\* tx.StartPairing(rxID), with the receiver listening
CrossStartPairing ==
    /\ rxListening
    /\ txCall.n < MaxCalls
    /\ StartPairing(rxId)
    /\ UNCHANGED <<codecVars, otherVars, rxVars, envVars>>

CrossPairingPoll ==
    /\ PairingPoll
    /\ UNCHANGED <<codecVars, otherVars, rxVars, envVars>>

\* tx.SendData after the pairing attempt
CrossSendData ==
    /\ txCall.n \in 1..(MaxCalls - 1)
    /\ SendData(<<1, 2, 3>>)
    /\ UNCHANGED <<codecVars, otherVars, rxVars, envVars>>

\* no step for the goroutine of the Data case: the transmitter is never
\* paired here, so it transmits no Data frame and the Receiver starts none
\* (CrossNoDataAck)
CrossNext ==
    \/ PairListen
    \/ PairListenStart
    \/ CrossStartPairing
    \/ CrossPairingPoll
    \/ PairPairingDeadline
    \/ CrossSendData
    \/ ForwardGetTxLog
    \/ ForwardInjectRx
    \/ ForwardClearTxLog
    \/ ListenLoopTest
    \/ ListenLoopRx
    \/ ListenLoopProcessLast

SpecCross == PairInit /\ [][CrossNext]_vars

----------------------------------------------------------------------------
(* The Receiver and its registry over time (SpecReg): peers put packets on *)
(* the air, the clock advances, the registry is cleaned up                 *)

\* where the model's clock stops, in milliseconds
MaxTime == 22500

\* the clock advances by half a DeviceTimeout, or by one millisecond more
TickSteps == {DeviceTimeout \div 2, DeviceTimeout \div 2 + 1}

\* the devices on the channel
RegPeers == {TxId, OtherId}

\* what a device puts on the air: a pairing request to this receiver, one to
\* another receiver, a heartbeat, a data packet
PeerPackets(id) ==
    {Packet(id, PacketTypePairing, <<0, 0>>, TRUE, PutUint32(TxKey) \o PutUint32(rxId)),
     Packet(id, PacketTypePairing, <<0, 0>>, TRUE, PutUint32(TxKey) \o PutUint32(OtherId)),
     Packet(id, PacketTypeHeartbeat, <<0, 0>>, FALSE, <<>>),
     Packet(id, PacketTypeData, <<5, 0>>, TRUE, <<1, 2, 3>>)}

RegInit ==
    /\ CodecOff
    /\ OtherOff
    /\ TxOff
    /\ rxId = RxId
    /\ rxReg = <<>>
    /\ rxListening = FALSE
    /\ rxLog = <<>>
    /\ rxRxQ = <<>>
    /\ rxAcks = <<>>
    /\ taskOn = FALSE
    /\ taskWake = 0
    /\ rxLastOp = "none"
    /\ rxPre = NoPre
    /\ AppOff
    /\ peerSent = 0
    /\ linked = FALSE
    /\ fwd = NoForward
    /\ now = 0
    /\ silent = {}

\* time passes
RegTick ==
    /\ rxListening
    /\ now < MaxTime
    /\ \E d \in TickSteps : now' = Min(now + d, MaxTime)
    /\ UNCHANGED <<codecVars, otherVars, txVars, rxVars, peerSent, linked, fwd, silent>>

\* a device that has not fallen silent transmits: the buffer reaches the receiver's driver
RegPeerSend ==
    /\ rxListening
    /\ InFlight < MaxQueue
    /\ \E id \in RegPeers \ silent :
          \E pkt \in PeerPackets(id) : rxRxQ' = Append(rxRxQ, EncodePacket(pkt))
    /\ UNCHANGED <<rxId, rxReg, rxListening, rxLog, rxAcks, taskOn, taskWake, rxLastOp, rxPre, appVars>>
    /\ UNCHANGED <<codecVars, otherVars, txVars, envVars>>

RegListen ==
    /\ ~rxListening
    /\ ListenReturned
    /\ Listen
    /\ UNCHANGED <<codecVars, otherVars, txVars, envVars>>

\* the call goes on: the flag is set and the goroutine started
RegListenStart ==
    /\ ListenStart
    /\ UNCHANGED <<codecVars, otherVars, txVars, envVars>>

RegAckTaskRun ==
    /\ AckTaskRun
    /\ UNCHANGED <<codecVars, otherVars, txVars, envVars>>

\* the radio has sent what the driver was handed
RegClearTxLog ==
    /\ rxLog # <<>>
    /\ rxLog' = <<>>
    /\ UNCHANGED <<rxId, rxReg, rxListening, rxRxQ, rxAcks, taskOn, taskWake, rxLastOp, rxPre, appVars>>
    /\ UNCHANGED <<codecVars, otherVars, txVars, envVars>>

\* the application calls CleanupDeadDevices
RegCleanup ==
    /\ rxListening
    /\ CleanupDeadDevices
    /\ UNCHANGED <<rxId, rxListening, rxLog, rxRxQ, rxAcks, taskOn, taskWake, callVars>>
    /\ UNCHANGED <<codecVars, otherVars, txVars, envVars>>

RegStartCleanupTask ==
    /\ rxListening
    /\ now = 0
    /\ StartCleanupTask
    /\ UNCHANGED <<codecVars, otherVars, txVars, envVars>>

RegCleanupTaskRun ==
    /\ CleanupTaskRun
    /\ UNCHANGED <<codecVars, otherVars, txVars, envVars>>

\* the application starts the Receiver's heartbeat task, at any moment
RegStartHeartbeatTask ==
    /\ rxListening
    /\ ReceiverStartHeartbeatTask
    /\ UNCHANGED <<txGo, rxAccepted, rxAccess, ringVars>>
    /\ UNCHANGED <<codecVars, txVars, envVars>>

RegHeartbeatTaskRun ==
    /\ ReceiverHeartbeatTaskRun
    /\ UNCHANGED <<txGo, rxAccepted, rxAccess, ringVars>>
    /\ UNCHANGED <<codecVars, txVars, envVars>>

RegNext ==
    \/ RegListen
    \/ RegListenStart
    \/ RegTick
    \/ RegPeerSend
    \/ ListenLoopTest
    \/ ListenLoopRx
    \/ ListenLoopProcess
    \/ RegAckTaskRun
    \/ RegClearTxLog
    \/ RegCleanup
    \/ RegStartHeartbeatTask
    \/ RegHeartbeatTaskRun

SpecReg == RegInit /\ [][RegNext]_vars

----------------------------------------------------------------------------
(* The Receiver with its cleanup task running (SpecTask): as SpecReg, but  *)
(* the registry is cleaned up by the goroutine of StartCleanupTask, and    *)
(* devices fall silent                                                     *)

\* the devices on the channel
TaskPeers == {TxId, OtherId}

\* time passes, half a DeviceTimeout at a time
TaskTick ==
    /\ rxListening
    /\ now < MaxTime
    /\ now' = Min(now + DeviceTimeout \div 2, MaxTime)
    /\ UNCHANGED <<codecVars, otherVars, txVars, rxVars, peerSent, linked, fwd, silent>>

\* a device that has not fallen silent sends a pairing request, a heartbeat or data
TaskPeerSend ==
    /\ rxListening
    /\ InFlight < MaxQueue
    /\ \E id \in TaskPeers \ silent :
          \E pkt \in {q \in PeerPackets(id) :
                          q.Type # PacketTypePairing \/ Uint32(SubSeq(q.Payload, 5, 8)) = rxId} :
              rxRxQ' = Append(rxRxQ, EncodePacket(pkt))
    /\ UNCHANGED <<rxId, rxReg, rxListening, rxLog, rxAcks, taskOn, taskWake, rxLastOp, rxPre, appVars>>
    /\ UNCHANGED <<codecVars, otherVars, txVars, envVars>>

\* a device stops sending for good
TaskGoSilent ==
    /\ rxListening
    /\ \E id \in TaskPeers \ silent : silent' = silent \cup {id}
    /\ UNCHANGED <<codecVars, otherVars, txVars, rxVars, peerSent, linked, fwd, now>>

TaskNext ==
    \/ RegListen
    \/ RegListenStart
    \/ RegStartCleanupTask
    \/ TaskTick
    \/ TaskPeerSend
    \/ TaskGoSilent
    \/ ListenLoopTest
    \/ ListenLoopRx
    \/ ListenLoopProcess
    \/ RegAckTaskRun
    \/ RegClearTxLog
    \/ RegCleanupTaskRun

\* time passes, the listening goroutine and the cleanup goroutine keep running
SpecTask ==
    /\ RegInit
    /\ [][TaskNext]_vars
    /\ WF_vars(TaskTick)
    /\ WF_vars(RegListenStart)
    /\ WF_vars(ListenLoopTest)
    /\ WF_vars(ListenLoopRx)
    /\ WF_vars(ListenLoopProcess)
    /\ WF_vars(RegCleanupTaskRun)

----------------------------------------------------------------------------
(* The Receiver processing packets, with a Data callback (SpecProc): the   *)
(* application registers a callback and starts listening, devices put      *)
(* packets of every kind on the air                                        *)

\* the devices on the channel
ProcPeers == {TxId, OtherId}

\* a second pairing key: 0xBEEF0001
ProcKey == U32(48879, 1)

\* what a device puts on the air: a pairing request to this receiver, one to
\* another receiver, one whose payload is a byte short, a data packet, a data
\* packet without payload
ProcPackets(id) ==
    {Packet(id, PacketTypePairing, <<3, 0>>, TRUE, PutUint32(TxKey) \o PutUint32(rxId)),
     Packet(id, PacketTypePairing, <<3, 0>>, TRUE, PutUint32(ProcKey) \o PutUint32(OtherId)),
     Packet(id, PacketTypePairing, <<3, 0>>, TRUE,
            PutUint32(ProcKey) \o SubSeq(PutUint32(rxId), 1, 3)),
     Packet(id, PacketTypeData, <<5, 0>>, TRUE, <<1, 2, 3>>),
     Packet(id, PacketTypeData, <<6, 0>>, FALSE, <<>>)}

\* the application registers its Data callback before it starts listening
ProcRegisterCallback ==
    /\ ~rxListening
    /\ rxCallback = "none"
    /\ \E kind \in CallbackKinds : RegisterCallback(kind)
    /\ UNCHANGED <<codecVars, otherVars, txVars, envVars>>

\* a device transmits: the buffer reaches the receiver's driver
ProcPeerSend ==
    /\ rxListening
    /\ InFlight < MaxQueue
    /\ \E id \in ProcPeers :
          \E pkt \in ProcPackets(id) : rxRxQ' = Append(rxRxQ, EncodePacket(pkt))
    /\ UNCHANGED <<rxId, rxReg, rxListening, rxLog, rxAcks, taskOn, taskWake, rxLastOp, rxPre, appVars>>
    /\ UNCHANGED <<codecVars, otherVars, txVars, envVars>>

ProcNext ==
    \/ ProcRegisterCallback
    \/ RegListen
    \/ RegListenStart
    \/ TaskTick
    \/ ProcPeerSend
    \/ ListenLoopTest
    \/ ListenLoopRx
    \/ ListenLoopProcessLast
    \/ RegAckTaskRun
    \/ RegClearTxLog

SpecProc == RegInit /\ [][ProcNext]_vars

----------------------------------------------------------------------------
(* The Receiver used by polling (SpecRecv): devices pair while the         *)
(* Receiver listens, the application stops the listening and calls         *)
(* ReceiveData                                                             *)

\* the devices on the channel
RecvPeers == {TxId, OtherId}

\* what a device puts on the air: a pairing request to this receiver, a
\* heartbeat, a data packet, a data packet without payload, and three bytes of noise
RecvBuffers(id) ==
    {EncodePacket(Packet(id, PacketTypePairing, <<0, 0>>, TRUE, PutUint32(TxKey) \o PutUint32(rxId))),
     EncodePacket(Packet(id, PacketTypeHeartbeat, <<0, 0>>, FALSE, <<>>)),
     EncodePacket(Packet(id, PacketTypeData, <<5, 0>>, TRUE, <<1, 2, 3>>)),
     EncodePacket(Packet(id, PacketTypeData, <<6, 0>>, FALSE, <<>>)),
     <<3, 1, 2>>}

\* a device transmits while the Receiver is listening or polling; one
\* ReceiveData call is sent MaxInject buffers at most
RecvPeerSend ==
    /\ rxListening \/ rxRecv.pc # "idle"
    /\ InFlight < MaxQueue
    /\ rxRecv.pc # "idle" => Len(rxRecv.got) + Len(rxRxQ) < MaxInject
    /\ \E id \in RecvPeers :
          \E data \in RecvBuffers(id) : rxRxQ' = Append(rxRxQ, data)
    /\ UNCHANGED <<rxId, rxReg, rxListening, rxLog, rxAcks, taskOn, taskWake, rxLastOp, rxPre, appVars>>
    /\ UNCHANGED <<codecVars, otherVars, txVars, envVars>>

\* the application stops the listening goroutine once it has read what arrived
RecvStopListening ==
    /\ rxListening
    /\ ListenReturned
    /\ rxRxQ = <<>>
    /\ StopListening
    /\ UNCHANGED <<codecVars, otherVars, txVars, envVars>>

\* the application calls ReceiveData while no goroutine is listening
RecvReceiveData ==
    /\ ~rxListening
    /\ ListenReturned
    /\ ReceiveData
    /\ UNCHANGED <<codecVars, otherVars, txVars, envVars>>

RecvRecvPoll ==
    /\ RecvPoll
    /\ UNCHANGED <<codecVars, otherVars, txVars, envVars>>

RecvRecvProcess ==
    /\ RecvProcess
    /\ UNCHANGED <<codecVars, otherVars, txVars, envVars>>

RecvRecvLookup ==
    /\ RecvLookup
    /\ UNCHANGED <<codecVars, otherVars, txVars, envVars>>

RecvRecvDeadline ==
    /\ RecvDeadline
    /\ UNCHANGED <<codecVars, otherVars, txVars, envVars>>

\* the application starts the listening while no ReceiveData call is running
\* and the goroutine of an earlier Listen has ended
RecvListen ==
    /\ ~rxListening
    /\ rxLoops = NoLoops
    /\ rxRecv.pc = "idle"
    /\ Listen
    /\ UNCHANGED <<codecVars, otherVars, txVars, envVars>>

\* the call goes on: the flag is set and the goroutine started
RecvListenStart ==
    /\ ListenStart
    /\ UNCHANGED <<codecVars, otherVars, txVars, envVars>>

RecvNext ==
    \/ RecvListen
    \/ RecvListenStart
    \/ RecvPeerSend
    \/ ListenLoopTest
    \/ ListenLoopRx
    \/ ListenLoopProcess
    \/ RecvStopListening
    \/ RecvReceiveData
    \/ RecvRecvPoll
    \/ RecvRecvProcess
    \/ RecvRecvLookup
    \/ RecvRecvDeadline
    \/ RegAckTaskRun
    \/ RegClearTxLog

SpecRecv == RegInit /\ [][RecvNext]_vars

----------------------------------------------------------------------------
(* The Receiver's blocking StartPairing, with and without the listening     *)
(* goroutine running beside it                                              *)

WaitPeers == {TxId}

\* what a device puts on the air: a pairing request to this receiver, one to
\* another receiver, a heartbeat
WaitPackets(id) ==
    {Packet(id, PacketTypePairing, <<0, 0>>, TRUE, PutUint32(TxKey) \o PutUint32(rxId)),
     Packet(id, PacketTypePairing, <<0, 0>>, TRUE, PutUint32(TxKey) \o PutUint32(OtherId)),
     Packet(id, PacketTypeHeartbeat, <<0, 0>>, FALSE, <<>>)}

\* the application starts the listening between two blocking calls
WaitListen ==
    /\ ~rxListening
    /\ rxLoops = NoLoops
    /\ rxPair.pc = "idle"
    /\ Listen
    /\ UNCHANGED <<codecVars, otherVars, txVars, envVars>>

\* the call goes on: the flag is set and the goroutine started
WaitListenStart ==
    /\ ListenStart
    /\ UNCHANGED <<codecVars, otherVars, txVars, envVars>>

\* the application stops the listening between two blocking calls
WaitStopListening ==
    /\ rxListening
    /\ ListenReturned
    /\ rxPair.pc = "idle"
    /\ StopListening
    /\ UNCHANGED <<codecVars, otherVars, txVars, envVars>>

\* a device transmits while the Receiver is listening or polling; one
\* StartPairing call is sent MaxInject buffers at most
WaitPeerSend ==
    /\ rxListening
    /\ InFlight < MaxQueue
    /\ rxPair.pc # "idle" => Len(rxPair.got) + Len(rxRxQ) < MaxInject
    /\ \E id \in WaitPeers :
          \E pkt \in WaitPackets(id) : rxRxQ' = Append(rxRxQ, EncodePacket(pkt))
    /\ UNCHANGED <<rxId, rxReg, rxListening, rxLog, rxAcks, taskOn, taskWake, rxLastOp, rxPre, appVars>>
    /\ UNCHANGED <<codecVars, otherVars, txVars, envVars>>

\* the application calls StartPairing while no ReceiveData call is running
\* and no Listen call of its own is under way
WaitStartPairing ==
    /\ rxRecv.pc = "idle"
    /\ ListenReturned
    /\ ReceiverStartPairing
    /\ UNCHANGED <<codecVars, otherVars, txVars, envVars>>

WaitPairingPoll ==
    /\ ReceiverPairingPoll
    /\ UNCHANGED <<codecVars, otherVars, txVars, envVars>>

WaitPairingProcess ==
    /\ ReceiverPairingProcess
    /\ UNCHANGED <<codecVars, otherVars, txVars, envVars>>

WaitPairingCheck ==
    /\ ReceiverPairingCheck
    /\ UNCHANGED <<codecVars, otherVars, txVars, envVars>>

WaitPairingReturn ==
    /\ ReceiverPairingReturn
    /\ UNCHANGED <<codecVars, otherVars, txVars, envVars>>

WaitPairingDeadline ==
    /\ ReceiverPairingDeadline
    /\ UNCHANGED <<codecVars, otherVars, txVars, envVars>>

\* the silence timeout passes in one piece while a call or the goroutine runs
WaitTick ==
    /\ rxListening
    /\ now + DeviceTimeout + 1 <= MaxTime
    /\ now' = now + DeviceTimeout + 1
    /\ UNCHANGED <<codecVars, otherVars, txVars, rxVars, peerSent, linked, fwd, silent>>

WaitNext ==
    \/ WaitListen
    \/ WaitListenStart
    \/ WaitTick
    \/ RegCleanup
    \/ WaitStopListening
    \/ WaitPeerSend
    \/ ListenLoopTest
    \/ ListenLoopRx
    \/ ListenLoopProcess
    \/ WaitStartPairing
    \/ WaitPairingPoll
    \/ WaitPairingProcess
    \/ WaitPairingCheck
    \/ WaitPairingReturn
    \/ WaitPairingDeadline
    \/ RegClearTxLog

SpecWait == RegInit /\ [][WaitNext]_vars

----------------------------------------------------------------------------
(* The listening goroutine step by step: Listen, StopListening and the      *)
(* loop's test and Rx as separate steps                                     *)

\* how many listening goroutines are alive at once
MaxLoops == 2

\* a Data frame of the CRC format whose CRC field was damaged on the air
CorruptFrame ==
    LET f == EncodeFrame(Frame(TxId, FrameTypeData, U32(0, 5), TRUE, <<1, 2, 3>>))
    IN  [f EXCEPT ![Len(f) - 1] = (@ + 1) % 256]

\* what arrives at the driver: a pairing request to this receiver, a data
\* packet, a damaged frame, and three bytes of noise
LoopBuffers ==
    {EncodePacket(Packet(TxId, PacketTypePairing, <<0, 0>>, TRUE, PutUint32(TxKey) \o PutUint32(rxId))),
     EncodePacket(Packet(TxId, PacketTypeData, <<5, 0>>, TRUE, <<1, 2, 3>>)),
     CorruptFrame,
     <<3, 1, 2>>}

\* the application calls Listen, whether the Receiver listens or not
LoopListen ==
    /\ rxListening \/ LoopCount + rxLoops.set < MaxLoops
    /\ Listen
    /\ UNCHANGED <<codecVars, otherVars, txVars, envVars>>

\* a call that found the flag clear goes on, whatever was called meanwhile
LoopListenStart ==
    /\ ListenStart
    /\ UNCHANGED <<codecVars, otherVars, txVars, envVars>>

LoopStopListening ==
    /\ rxListening
    /\ StopListening
    /\ UNCHANGED <<codecVars, otherVars, txVars, envVars>>

\* a buffer arrives at the driver
LoopPeerSend ==
    /\ Len(rxRxQ) + Len(rxAcks) + Len(rxLog) < MaxQueue
    /\ \E data \in LoopBuffers : rxRxQ' = Append(rxRxQ, data)
    /\ UNCHANGED <<rxId, rxReg, rxListening, rxLog, rxAcks, taskOn, taskWake, rxLastOp, rxPre, appVars>>
    /\ UNCHANGED <<codecVars, otherVars, txVars, envVars>>

LoopNext ==
    \/ LoopListen
    \/ LoopListenStart
    \/ LoopStopListening
    \/ ListenLoopTest
    \/ ListenLoopRx
    \/ ListenLoopProcessLast
    \/ LoopPeerSend
    \/ RegAckTaskRun
    \/ RegClearTxLog

SpecLoop == RegInit /\ [][LoopNext]_vars

\* the goroutines are scheduled and the driver's Rx returns within its timeout
SpecLoopFair ==
    /\ SpecLoop
    /\ WF_vars(LoopListenStart)
    /\ WF_vars(ListenLoopTest)
    /\ WF_vars(ListenLoopRx)
    /\ WF_vars(ListenLoopProcessLast)

----------------------------------------------------------------------------
(* The Receiver's blocking calls, StartPairing and ReceiveData, made one    *)
(* after the other by an application that has registered a Data callback    *)

\* what arrives at the driver while a call polls: a pairing request to this
\* receiver, a data packet, a heartbeat
BlockBuffers ==
    {EncodePacket(Packet(TxId, PacketTypePairing, <<0, 0>>, TRUE, PutUint32(TxKey) \o PutUint32(rxId))),
     EncodePacket(Packet(TxId, PacketTypeData, <<5, 0>>, TRUE, <<1, 2, 3>>)),
     EncodePacket(Packet(TxId, PacketTypeHeartbeat, <<0, 0>>, FALSE, <<>>))}

\* the application registers its Data callback before its first call
BlockRegisterCallback ==
    /\ rxCallback = "none"
    /\ rxPair.res = "none"
    /\ rxRecv.res = "none"
    /\ \E kind \in CallbackKinds : RegisterCallback(kind)
    /\ UNCHANGED <<codecVars, otherVars, txVars, envVars>>

\* a buffer arrives while a call polls; one call is sent MaxInject buffers at most
BlockPeerSend ==
    /\ rxPair.pc # "idle" \/ rxRecv.pc # "idle"
    /\ Len(rxRxQ) + Len(rxAcks) + Len(rxLog) < MaxQueue
    /\ Len(rxPair.got) + Len(rxRecv.got) + Len(rxRxQ) < MaxInject
    /\ \E data \in BlockBuffers : rxRxQ' = Append(rxRxQ, data)
    /\ UNCHANGED <<rxId, rxReg, rxListening, rxLog, rxAcks, taskOn, taskWake, rxLastOp, rxPre, appVars>>
    /\ UNCHANGED <<codecVars, otherVars, txVars, envVars>>

BlockReceiveData ==
    /\ rxPair.pc = "idle"
    /\ ReceiveData
    /\ UNCHANGED <<codecVars, otherVars, txVars, envVars>>

BlockNext ==
    \/ BlockRegisterCallback
    \/ BlockPeerSend
    \/ WaitStartPairing
    \/ WaitPairingPoll
    \/ WaitPairingProcess
    \/ WaitPairingCheck
    \/ WaitPairingReturn
    \/ WaitPairingDeadline
    \/ BlockReceiveData
    \/ RecvRecvPoll
    \/ RecvRecvProcess
    \/ RecvRecvLookup
    \/ RecvRecvDeadline
    \/ RegAckTaskRun
    \/ RegClearTxLog

\* the calling goroutine is scheduled and the driver's Rx returns within its timeout
SpecBlock ==
    /\ RegInit
    /\ [][BlockNext]_vars
    /\ WF_vars(WaitPairingPoll)
    /\ WF_vars(WaitPairingProcess)
    /\ WF_vars(WaitPairingCheck)
    /\ WF_vars(WaitPairingReturn)
    /\ WF_vars(WaitPairingDeadline)
    /\ WF_vars(RecvRecvPoll)
    /\ WF_vars(RecvRecvProcess)
    /\ WF_vars(RecvRecvLookup)
    /\ WF_vars(RecvRecvDeadline)

\* the Transmitter's calls under a scheduler that runs the calling goroutine
SpecTxFair ==
    /\ SpecTx
    /\ WF_vars(TxPairingPoll)
    /\ WF_vars(TxPairingDeadline)
    /\ WF_vars(TxReliableTransmit)
    /\ WF_vars(TxReliablePoll)
    /\ WF_vars(TxReliableWindowEnd)
    /\ WF_vars(TxReliableGiveUp)

----------------------------------------------------------------------------
(* Heartbeats from devices in the registry and from strangers, with the     *)
(* clock running                                                            *)

\* a device transmits while the Receiver is listening
BeatPeerSend ==
    /\ rxListening
    /\ InFlight < MaxQueue
    /\ \E id \in RegPeers :
          \E pkt \in PeerPackets(id) : rxRxQ' = Append(rxRxQ, EncodePacket(pkt))
    /\ UNCHANGED <<rxId, rxReg, rxListening, rxLog, rxAcks, taskOn, taskWake, rxLastOp, rxPre, appVars>>
    /\ UNCHANGED <<codecVars, otherVars, txVars, envVars>>

BeatNext ==
    \/ ProcRegisterCallback
    \/ RegListen
    \/ RegListenStart
    \/ TaskTick
    \/ BeatPeerSend
    \/ ListenLoopTest
    \/ ListenLoopRx
    \/ ListenLoopProcessLast
    \/ RegAckTaskRun
    \/ RegClearTxLog

SpecBeat == RegInit /\ [][BeatNext]_vars

----------------------------------------------------------------------------
(* The registry with an application that keeps the Device pointers it got   *)
(* from GetPairedDevices                                                    *)

\* the application calls GetPairedDevices and keeps what it returns
HeldGetPairedDevices ==
    /\ rxListening
    /\ rxReg # <<>>
    /\ GetPairedDevices
    /\ UNCHANGED <<codecVars, otherVars, txVars, envVars>>

HeldNext ==
    \/ RegListen
    \/ RegListenStart
    \/ RegTick
    \/ RegPeerSend
    \/ ListenLoopTest
    \/ ListenLoopRx
    \/ ListenLoopProcess
    \/ RegAckTaskRun
    \/ RegClearTxLog
    \/ RegCleanup
    \/ HeldGetPairedDevices

SpecHeld == RegInit /\ [][HeldNext]_vars

----------------------------------------------------------------------------
(* Claims about the codec, checked under SpecCodec                         *)

\* the state after an undamaged buffer was decoded
CleanDecoded == cPc = "decoded" /\ cHow = "clean"

\* C4 -- Codec round trip: for every sender identity, type, sequence and
\* payload of length 0..113, DecodeFrame(EncodeFrame(frame)) is not none and
\* carries the same senderIdentity, type, sequence and payload bytes.
C4_RoundTrip ==
    (CleanDecoded /\ Len(cGiven.Payload) <= 113)
        => /\ ~cOut.nil
           /\ cOut.SenderID = cGiven.SenderID
           /\ cOut.Type = cGiven.Type
           /\ cOut.Seq = cGiven.Seq
           /\ Len(cOut.Payload) = Len(cGiven.Payload)
           /\ \A i \in 1..Len(cGiven.Payload) : cOut.Payload[i] = cGiven.Payload[i]

\* a frame with the largest payload (113 bytes) and sequence 0xFFFFFFFF came back
C4_Witness ==
    /\ CleanDecoded
    /\ Len(cGiven.Payload) = 113
    /\ cGiven.Seq = U32(65535, 65535)
    /\ ~cOut.nil
    /\ Len(cOut.Payload) = 113

\* C5 -- Corruption rejection: a flipped bit in any of the 4 CRC bytes, or a
\* terminator byte replaced by a value other than 0x55, makes DecodeFrame
\* return none; so does every buffer shorter than 15 bytes, nil included.
C5_CorruptionRejected ==
    cPc = "decoded" =>
        /\ cHow \in {"crcflip", "term"} => cOut.nil
        /\ Len(cWire) < 15 => cOut.nil

\* a frame with a non-empty payload whose CRC had one bit flipped was refused
C5_Witness ==
    /\ cPc = "decoded"
    /\ cHow = "crcflip"
    /\ Len(cGiven.Payload) = 5
    /\ Len(cWire) = 20
    /\ cOut.nil

\* C6 -- Truncation: for every payload longer than 113 bytes EncodeFrame
\* returns at most 128 bytes, the buffer decodes, and the decoded payload is
\* the first 113 bytes of the original payload.
C6_Truncation ==
    (cHow = "clean" /\ cPc \in {"encoded", "decoded"} /\ Len(cGiven.Payload) > 113)
        => /\ Len(cWire) <= 128
           /\ cPc = "decoded" =>
                 /\ ~cOut.nil
                 /\ Len(cOut.Payload) <= 113
                 /\ cOut.Payload = SubSeq(cGiven.Payload, 1, 113)

\* a 226-byte payload was encoded and decoded to 113 bytes
C6_Witness ==
    /\ CleanDecoded
    /\ Len(cGiven.Payload) = 226
    /\ Len(cWire) = 128
    /\ ~cOut.nil
    /\ Len(cOut.Payload) = 113

\* the value of 4 little-endian bytes, as two 16-bit halves <<high, low>>
LEHalves(b) == <<b[3] + 256 * b[4], b[1] + 256 * b[2]>>

\* C7 -- Wire-frame structure: the buffer EncodeFrame returns for a non-nil
\* frame has first byte = total length - 1, last byte = 0x55, the sender
\* identity at bytes 1..4 and the sequence at bytes 6..9 little-endian, the
\* type at byte 5, and before the terminator the CRC-32 of exactly the
\* payload bytes written (0 for an empty payload; 0x470B99F4 for 1,2,3,4,5).
C7_WireStructure ==
    (cPc = "encoded" /\ ~cGiven.nil) =>
        LET n == Len(cWire)
            written == SubSeq(cWire, 11, n - 5)
            crcField == SubSeq(cWire, n - 4, n - 1)
        IN  /\ n >= 15
            /\ cWire[1] = n - 1
            /\ cWire[n] = 85
            /\ LEHalves(SubSeq(cWire, 2, 5)) = <<cGiven.SenderID.hi, cGiven.SenderID.lo>>
            /\ cWire[6] = cGiven.Type
            /\ LEHalves(SubSeq(cWire, 7, 10)) = <<cGiven.Seq.hi, cGiven.Seq.lo>>
            /\ written = SubSeq(cGiven.Payload, 1, n - 15)
            /\ LET crc == ChecksumIEEE(written)
               IN  LEHalves(crcField) = <<crc.hi, crc.lo>>
            /\ n = 15 => crcField = <<0, 0, 0, 0>>
            /\ written = <<1, 2, 3, 4, 5>> => crcField = <<244, 153, 11, 71>>

\* the frame {0xCAFE, Data, 42, [1,2,3,4,5]} was encoded to 20 bytes
C7_Witness ==
    /\ cPc = "encoded"
    /\ cGiven.SenderID = U32(0, 51966)
    /\ cGiven.Type = FrameTypeData
    /\ cGiven.Payload = <<1, 2, 3, 4, 5>>
    /\ Len(cWire) = 20
    /\ cWire[1] = 19

----------------------------------------------------------------------------
(* Claims about the Transmitter, checked under SpecTx                      *)

\* the buffers the last call handed to the driver
SentByCall == {i \in DOMAIN txTag : txTag[i].call = txCall.n}

\* the last call has returned
Returned == txCall.n > 0 /\ txRes # "pending"

\* the fields of a frame read off the buffer: sender at offset 1, type at 5, sequence at 6
WireSender(data) == Uint32(SubSeq(data, 2, 5))
WireType(data) == data[6]
WireSeq(data) == Uint32(SubSeq(data, 7, 10))
\* the buffer has the length its first byte announces and ends in the terminator
WellFramed(data) ==
    /\ Len(data) >= FrameHeaderSize + CRCSize + TerminalSize
    /\ data[1] = Len(data) - 1
    /\ data[Len(data)] = FrameTerminal

\* b = a + 1 modulo 2^32, on the 16-bit halves
IsSucc32(a, b) ==
    \/ a.lo < 65535 /\ b.lo = a.lo + 1 /\ b.hi = a.hi
    \/ a.lo = 65535 /\ b.lo = 0 /\ a.hi < 65535 /\ b.hi = a.hi + 1
    \/ a.lo = 65535 /\ b.lo = 0 /\ a.hi = 65535 /\ b.hi = 0

\* the buffer is an Ack frame carrying the sequence number seq
IsAckFor(data, seq) ==
    LET f == DecodeFrame(data)
    IN  ~f.nil /\ f.Type = FrameTypeAck /\ f.Seq = seq

\* the received buffers of the call in progress that are its Ack
MatchingAcks == {i \in DOMAIN txRcvd : IsAckFor(txRcvd[i].data, txCall.seq)}

\* a SendDataReliable call that got past its checks, with maxRetries >= 1
ReliableCall ==
    /\ txCall.name = "SendDataReliable"
    /\ txCall.paired
    /\ txCall.plen <= MaxPayloadSize
    /\ txCall.maxRetries >= 1

\* C2: a SendDataReliable call on a paired Transmitter with maxRetries = n >= 1
\* transmits its data frame once per attempt.  It returns success exactly when
\* a wait window received an Ack with its sequence number, at once, so that the
\* number of transmissions is the number of the attempt in which that Ack
\* came (2 when it came after the 2nd transmission).  When no such Ack came
\* it returns Timeout after exactly n transmissions.
C2_ReliableRetryCount ==
    ReliableCall =>
        /\ \A i \in SentByCall :
              LET data == txTag[i].data
              IN  /\ WellFramed(data)
                  /\ WireType(data) = FrameTypeData
                  /\ WireSeq(data) = txCall.seq
                  /\ WireSender(data) = TxId
        /\ txRes = "pending" =>
              /\ MatchingAcks = {}
              /\ Cardinality(SentByCall) <= txCall.maxRetries
              /\ \A i \in DOMAIN txRcvd : txRcvd[i].attempt \in 1..Cardinality(SentByCall)
        /\ txRes # "pending" =>
              IF MatchingAcks = {}
              THEN /\ txRes = "Timeout"
                   /\ Cardinality(SentByCall) = txCall.maxRetries
              ELSE /\ txRes = "ok"
                   /\ MatchingAcks = {Len(txRcvd)}
                   /\ Cardinality(SentByCall) = txRcvd[Len(txRcvd)].attempt
                   /\ Cardinality(SentByCall) <= txCall.maxRetries

\* maxRetries = 3, the matching Ack came after the 2nd transmission: success after 2
C2_Witness ==
    /\ ReliableCall
    /\ txCall.maxRetries = 3
    /\ txRes = "ok"
    /\ Cardinality(SentByCall) = 2
    /\ Len(txRcvd) >= 1
    /\ txRcvd[Len(txRcvd)].attempt = 2

\* maxRetries = 3, no matching Ack: Timeout after 3 transmissions
C2_TimeoutReached ==
    /\ ReliableCall
    /\ txCall.maxRetries = 3
    /\ txRes = "Timeout"
    /\ Cardinality(SentByCall) = 3

\* C3: of two frames that successive SendFrame calls transmitted (no other
\* sender of frames in between), the later one carries the sequence number of
\* the earlier one plus 1, modulo 2^32.
C3_SequenceMonotonic ==
    \A i \in 1..(Len(txTag) - 1) :
        (txTag[i].via = "SendFrame" /\ txTag[i + 1].via = "SendFrame"
            /\ txTag[i].rel = txTag[i + 1].rel)
        => /\ WellFramed(txTag[i].data)
           /\ WellFramed(txTag[i + 1].data)
           /\ IsSucc32(WireSeq(txTag[i].data), WireSeq(txTag[i + 1].data))

\* two SendFrame calls in a row, the first with sequence 0xFFFFFFFF, the second with 0
C3_Witness ==
    /\ Len(txTag) >= 2
    /\ txTag[1].via = "SendFrame"
    /\ txTag[2].via = "SendFrame"
    /\ txTag[1].rel = txTag[2].rel
    /\ txTag[2].call = txTag[1].call + 1
    /\ DecodeFrame(txTag[1].data).Seq = U32(65535, 65535)
    /\ DecodeFrame(txTag[2].data).Seq = Zero32

\* the calls the pairing gate applies to
GatedCall ==
    \/ txCall.name \in {"SendData", "SendHeartbeat", "SendDataReliable"}
    \/ txCall.name = "SendFrame" /\ txCall.type # FrameTypePairing

\* C8: a call of SendData, SendHeartbeat, SendDataReliable or SendFrame with a
\* type other than Pairing, made while the paired flag is false, returns
\* NotPaired and hands nothing to the driver.  SendFrame with type Pairing made
\* while the flag is false is never refused with NotPaired, and (its payload
\* fitting a frame) it returns success and hands the driver one Pairing frame
\* carrying the Transmitter's identity and the sequence number of the call.
C8_NotPairedGate ==
    Returned =>
        /\ (~txCall.paired /\ GatedCall) =>
              /\ txRes = "NotPaired"
              /\ SentByCall = {}
        /\ (~txCall.paired /\ txCall.name = "SendFrame" /\ txCall.type = FrameTypePairing) =>
              /\ txRes # "NotPaired"
              /\ txCall.plen <= MaxPayloadSize =>
                    /\ txRes = "ok"
                    /\ Cardinality(SentByCall) = 1
                    /\ \A i \in SentByCall :
                          LET data == txTag[i].data
                          IN  /\ WellFramed(data)
                              /\ WireType(data) = FrameTypePairing
                              /\ WireSender(data) = TxId
                              /\ WireSeq(data) = txCall.seq
                              /\ Len(data) = FrameHeaderSize + txCall.plen + CRCSize + TerminalSize

\* unpaired: a Pairing frame went out by SendFrame, then SendFrame(Data) was refused
C8_Witness ==
    /\ ~txPaired
    /\ txCall.n = 2
    /\ txCall.name = "SendFrame"
    /\ txCall.type = FrameTypeData
    /\ txRes = "NotPaired"
    /\ Len(txTag) = 1
    /\ txTag[1].call = 1
    /\ DecodeFrame(txTag[1].data).Type = FrameTypePairing


\* the payload of a frame read off the buffer: it starts at offset 10 and
\* ends before the CRC and the terminator
WirePayload(data) == SubSeq(data, FrameHeaderSize + 1, Len(data) - CRCSize - TerminalSize)

\* the buffer is an Ack frame with sequence number seq whose first four
\* payload bytes are, little-endian, the identity rid
IsPairingAck(data, seq, rid) ==
    /\ WellFramed(data)
    /\ WireType(data) = FrameTypeAck
    /\ WireSeq(data) = seq
    /\ Len(WirePayload(data)) >= 4
    /\ Uint32(SubSeq(WirePayload(data), 1, 4)) = rid

\* the received buffers of the StartPairing call in progress that are the Ack
\* of the Pairing frame it sent, from the receiver it named
PairingAcks ==
    {i \in DOMAIN txRcvd :
        \E j \in SentByCall : IsPairingAck(txRcvd[i].data, WireSeq(txTag[j].data), txReceiver)}

\* C16: StartPairing(receiverID) sends one Pairing frame; it returns success,
\* and sets the paired flag, exactly when it has received an Ack frame whose
\* sequence number is that of the Pairing frame and whose payload starts with
\* receiverID, and it returns at once then.  Every other frame it receives
\* (another type, another sequence number, another identity, a payload under
\* 4 bytes) is skipped: the call goes on and the flag is as it was.
C16_PairingAcceptance ==
    txCall.name = "StartPairing" =>
        /\ Cardinality(SentByCall) = 1
        /\ \A j \in SentByCall :
              /\ WireType(txTag[j].data) = FrameTypePairing
              /\ WireSeq(txTag[j].data) = txCall.seq
        /\ txRes \in {"pending", "ok", "Timeout"}
        /\ (txRes = "ok") <=> (PairingAcks # {})
        /\ PairingAcks # {} => PairingAcks = {Len(txRcvd)}
        /\ txPaired <=> (txCall.paired \/ txRes = "ok")

\* an Ack with the right sequence number and a 3-byte payload was skipped,
\* the Ack that followed was accepted
C16_Witness ==
    /\ txCall.name = "StartPairing"
    /\ ~txCall.paired
    /\ txRes = "ok"
    /\ txPaired
    /\ Len(txRcvd) = 2
    /\ WireType(txRcvd[1].data) = FrameTypeAck
    /\ WireSeq(txRcvd[1].data) = txCall.seq
    /\ Len(WirePayload(txRcvd[1].data)) = 3

\* an Ack with the next sequence number and one with another identity were skipped
C16_SkippedReached ==
    /\ txCall.name = "StartPairing"
    /\ txRes = "Timeout"
    /\ ~txPaired
    /\ Len(txRcvd) = 2
    /\ \E i, j \in DOMAIN txRcvd :
          /\ WireType(txRcvd[i].data) = FrameTypeAck
          /\ WireSeq(txRcvd[i].data) = Inc32(txCall.seq)
          /\ WireType(txRcvd[j].data) = FrameTypeAck
          /\ WireSeq(txRcvd[j].data) = txCall.seq
          /\ WirePayload(txRcvd[j].data) = PutUint32(OtherId)

\* the call before the last was a StartPairing on an unpaired Transmitter that returned Timeout
AfterPairingTimeout ==
    /\ txCall.prev.name = "StartPairing"
    /\ txCall.prev.res = "Timeout"
    /\ ~txCall.prev.paired

\* C17: when StartPairing on an unpaired Transmitter runs into its deadline
\* without a matching Ack it returns Timeout and the paired flag is still
\* false; a SendData or SendHeartbeat call made next returns NotPaired and
\* sends nothing.
C17_PairingTimeout ==
    /\ (txCall.name = "StartPairing" /\ ~txCall.paired /\ Returned /\ PairingAcks = {}) =>
          /\ txRes = "Timeout"
          /\ ~txPaired
    /\ AfterPairingTimeout =>
          /\ ~txCall.paired
          /\ txCall.name \in {"SendData", "SendHeartbeat"} =>
                /\ txRes = "NotPaired"
                /\ SentByCall = {}
                /\ txSeq = txCall.seq

\* StartPairing timed out after skipping a frame, then SendData was refused
C17_Witness ==
    /\ AfterPairingTimeout
    /\ txCall.name = "SendData"
    /\ txRes = "NotPaired"
    /\ ~txPaired
    /\ Len(txTag) = 1

\* StartPairing timed out, then SendHeartbeat was refused
C17_HeartbeatReached ==
    /\ AfterPairingTimeout
    /\ txCall.name = "SendHeartbeat"
    /\ txRes = "NotPaired"

\* C18: SendDataReliable on an unpaired Transmitter returns NotPaired; on a
\* paired one, with a payload longer than MaxPayloadSize, it returns
\* InvalidPayload.  In both cases the driver is handed nothing and the
\* sequence counter is what it was.
C18_ReliableUpFront ==
    txCall.name = "SendDataReliable" =>
        /\ ~txCall.paired =>
              /\ txRes = "NotPaired"
              /\ SentByCall = {}
              /\ txSeq = txCall.seq
        /\ (txCall.paired /\ txCall.plen > MaxPayloadSize) =>
              /\ txRes = "InvalidPayload"
              /\ SentByCall = {}
              /\ txSeq = txCall.seq

\* paired by StartPairing, then SendDataReliable with 114 bytes was refused
C18_Witness ==
    /\ txCall.name = "SendDataReliable"
    /\ txCall.paired
    /\ txCall.plen = MaxPayloadSize + 1
    /\ txRes = "InvalidPayload"
    /\ txSeq = txCall.seq

\* unpaired, SendDataReliable was refused
C18_NotPairedReached ==
    /\ txCall.name = "SendDataReliable"
    /\ ~txCall.paired
    /\ txRes = "NotPaired"

\* a SendFrame call that passes the pairing gate
UngatedSendFrame ==
    /\ txCall.name = "SendFrame"
    /\ txCall.paired \/ txCall.type = FrameTypePairing

\* C19: SendFrame with a payload of more than 113 bytes returns
\* InvalidPayload, hands the driver nothing and leaves the sequence counter
\* alone; with a payload of 113 bytes or fewer it returns success and hands
\* the driver one frame that carries the whole payload.
C19_SendFramePayloadLimit ==
    UngatedSendFrame =>
        IF txCall.plen > 113
        THEN /\ txRes = "InvalidPayload"
             /\ SentByCall = {}
             /\ txSeq = txCall.seq
        ELSE /\ txRes = "ok"
             /\ Cardinality(SentByCall) = 1
             /\ IsSucc32(txCall.seq, txSeq)
             /\ \A i \in SentByCall :
                   /\ WellFramed(txTag[i].data)
                   /\ WirePayload(txTag[i].data) = txCall.payload

\* a payload of exactly 113 bytes went out in a frame of 128 bytes
C19_Witness ==
    /\ UngatedSendFrame
    /\ txCall.plen = 113
    /\ txRes = "ok"
    /\ \E i \in SentByCall :
          /\ Len(txTag[i].data) = MaxFrameSize
          /\ DecodeFrame(txTag[i].data).Payload = txCall.payload

\* a payload of 114 bytes was refused
C19_OversizeReached ==
    /\ UngatedSendFrame
    /\ txCall.plen = 114
    /\ txRes = "InvalidPayload"
    /\ SentByCall = {}

----------------------------------------------------------------------------
(* Claims about the pairing handshake, checked under SpecCross; the same    *)
(* exchange between the two devices of the Packet format, under SpecPair   *)

\* the last call is a StartPairing for the receiver's identity that has returned
PairingReturned ==
    /\ linked
    /\ rxListening
    /\ txCall.name = "StartPairing"
    /\ txReceiver = rxId
    /\ txRes # "pending"

\* every buffer of the exchange was delivered: the receiver has processed the
\* request the call transmitted, and the transmitter has read, during the
\* call, every buffer the receiver sent in answer to it
RequestDelivered ==
    /\ \E i \in SentByCall : txTag[i].data = rxLast.data
    /\ \A k \in DOMAIN rxLast.out.sync :
          \E j \in DOMAIN txRcvd : txRcvd[j].data = rxLast.out.sync[k]

\* C1: with the drivers wired together and the Receiver listening, a
\* Transmitter.StartPairing(the receiver's identity) whose request was
\* delivered to the Receiver, and whose answers were delivered to the
\* Transmitter before it returned, has returned success, the Transmitter's
\* paired flag is true and the Receiver's registry holds the Transmitter's
\* identity as paired.
C1_PairingHandshake ==
    (PairingReturned /\ RequestDelivered)
    => /\ txRes = "ok"
       /\ txPaired
       /\ IsPaired(TxId)

\* whatever the schedule of the call, the forwarding goroutine and the
\* listening loop: no StartPairing returns success and the flag is never set
C1_NoScheduleSucceeds ==
    /\ ~txPaired
    /\ txCall.name = "StartPairing" => txRes # "ok"

\* the request was processed and nothing was registered and nothing
\* answered: the call has returned Timeout
C1_RequestIgnoredReached ==
    /\ PairingReturned
    /\ RequestDelivered
    /\ rxLast.out.sync = <<>>
    /\ rxReg = <<>>
    /\ txRes = "Timeout"

\* the request was processed, the transmitter registered and an Ack sent;
\* the transmitter has read the Ack and the call has returned Timeout
C1_AckRefusedReached ==
    /\ PairingReturned
    /\ RequestDelivered
    /\ Len(rxLast.out.sync) = 1
    /\ IsPaired(TxId)
    /\ DecodeFrame(rxLast.out.sync[1]).nil
    /\ txRes = "Timeout"
    /\ ~txPaired

\* the Receiver has started no goroutine for the Ack of a Data packet
CrossNoDataAck == rxAcks = <<>>

\* SpecPair: the first StartPairing of a new transmitter has returned
\* success after its request was processed and the Ack read
PairHandshakeReached ==
    /\ PairingReturned
    /\ RequestDelivered
    /\ txCall.n = 1
    /\ Len(rxLast.out.sync) = 1
    /\ txRes = "ok"
    /\ txPaired
    /\ IsPaired(TxId)
    /\ rxReg[TxId].PairingKey = txKey

\* SpecPair: the deadline passes before the forwarding goroutine has carried
\* the request or the Ack across: the call returns Timeout
PairEarlyDeadlineReached ==
    /\ PairingReturned
    /\ ~RequestDelivered
    /\ txRes = "Timeout"
    /\ ~txPaired

\* SpecPair, TestTransmitter_Pairing: Listen, StartPairing(rxID) returns nil
\* with the paired flag set, and the SendData that follows returns nil
TestPairingReached ==
    /\ txCall.n = 2
    /\ txCall.name = "SendData"
    /\ txCall.prev.name = "StartPairing"
    /\ txCall.prev.res = "ok"
    /\ txPaired
    /\ txRes = "ok"

\* SpecPair: the SendHeartbeat made after pairing has handed the driver an
\* 8-byte Heartbeat packet with the next sequence number
PairHeartbeatReached ==
    /\ txCall.n = 2
    /\ txCall.name = "SendHeartbeat"
    /\ txCall.prev.res = "ok"
    /\ txRes = "ok"
    /\ txSeq = PacketNextSeq(txCall.seq)
    /\ \E i \in SentByCall :
          txTag[i].data = <<7, 254, 202, 0, 0, PacketTypeHeartbeat>> \o SeqBytes(txCall.seq)

\* SpecPair: the Ack of the Data packet sent after pairing has left the
\* goroutine that ProcessPacket started for it
PairDataAckReached ==
    /\ txCall.name = "SendData"
    /\ txRes = "ok"
    /\ rxAcks = <<>>
    /\ \E i \in DOMAIN rxLog : DecodePacket(rxLog[i]).Type = PacketTypeAck
                                /\ DecodePacket(rxLog[i]).Reserved = SeqBytes(txCall.seq)

----------------------------------------------------------------------------
(* Claims about the registry, checked under SpecReg and SpecTask           *)

\* C9: when CleanupDeadDevices has returned, every device that was in the
\* registry with now - LastSeen > DeviceTimeout (now being the clock reading
\* of that call) is out of the registry, and every device that was in it with
\* now - LastSeen <= DeviceTimeout is still in it and still paired; nothing
\* else has entered the registry.
C9_EvictionPostcondition ==
    rxLastOp = "cleanup" =>
        /\ \A id \in DOMAIN rxPre.reg :
              IF rxPre.now - rxPre.reg[id].LastSeen > DeviceTimeout
              THEN id \notin DOMAIN rxReg
              ELSE /\ id \in DOMAIN rxReg
                   /\ rxReg[id].IsPaired
                   /\ rxReg[id] = rxPre.reg[id]
        /\ DOMAIN rxReg \subseteq DOMAIN rxPre.reg

\* a cleanup at a moment when one device was 15001 ms old and another one younger:
\* the first is gone, the second is still there
C9_Witness ==
    /\ rxLastOp = "cleanup"
    /\ \E a \in DOMAIN rxPre.reg, b \in DOMAIN rxPre.reg :
          /\ rxPre.now - rxPre.reg[a].LastSeen = 15001
          /\ a \notin DOMAIN rxReg
          /\ rxPre.now - rxPre.reg[b].LastSeen <= 15000
          /\ b \in DOMAIN rxReg
          /\ rxReg[b].IsPaired

\* the heartbeat task, started when a device was 15001 ms old, has removed it
\* in its first turn, before any Sleep
C9_HeartbeatTaskReached ==
    /\ rxLastOp = "cleanup"
    /\ rxBeat.on
    /\ rxBeat.wake = rxPre.now + HeartbeatInterval \div 2
    /\ \E b \in DOMAIN rxPre.reg :
          /\ rxPre.now - rxPre.reg[b].LastSeen = DeviceTimeout + 1
          /\ b \notin DOMAIN rxReg

\* a cleanup at a moment when a device was exactly 15000 ms old: it is still there
C9_BoundaryReached ==
    /\ rxLastOp = "cleanup"
    /\ \E b \in DOMAIN rxPre.reg :
          /\ rxPre.now - rxPre.reg[b].LastSeen = 15000
          /\ b \in DOMAIN rxReg

\* the device has stopped sending and nothing of it is waiting in the
\* receiver's driver or held by a listening goroutine
Quiet(id) ==
    /\ id \in silent
    /\ \A k \in DOMAIN rxRxQ :
          LET pkt == DecodePacket(rxRxQ[k])
          IN  pkt.nil \/ pkt.SenderID # id
    /\ \A k \in DOMAIN rxLoops.got : DecodePacket(rxLoops.got[k]).SenderID # id

\* the model's clock runs long enough for the cleanup pass that finds the device stale
InHorizon(id) ==
    /\ taskWake <= MaxTime
    /\ rxReg[id].LastSeen + DeviceTimeout + DeviceTimeout \div 2 <= MaxTime

\* the step processes a Pairing packet of the device
PairsAgain(id) ==
    \E k \in DOMAIN rxLoops.got :
        /\ rxLoops'.got = RemoveAt(rxLoops.got, k)
        /\ LET pkt == DecodePacket(rxLoops.got[k])
           IN  pkt.SenderID = id /\ pkt.Type = PacketTypePairing

\* C10: with the cleanup task running, a paired device that sends nothing any
\* more is eventually removed from the registry; and IsPaired(identity),
\* once false, becomes true again only by the device pairing again.
C10_StaleEventuallyRemoved ==
    /\ \A id \in TaskPeers :
          (taskOn /\ Quiet(id) /\ id \in DOMAIN rxReg /\ InHorizon(id))
              ~> (id \notin DOMAIN rxReg /\ ~IsPaired(id))
    /\ [][\A id \in TaskPeers :
              (~IsPaired(id) /\ IsPaired(id)') => PairsAgain(id)]_vars

\* a device that had fallen silent has been removed by the cleanup task
C10_Witness ==
    /\ taskOn
    /\ rxLastOp = "cleanup"
    /\ \E id \in silent :
          /\ id \in DOMAIN rxPre.reg
          /\ id \notin DOMAIN rxReg
          /\ ~IsPaired(id)

----------------------------------------------------------------------------
(* Claims about packet processing, checked under SpecProc                  *)

\* C11: Receiver.mu is never held while the application's Data callback
\* runs, so a callback that calls back into the Receiver (IsPaired) returns
\* and no goroutine is left waiting for the mutex.
C11_NoLockAcrossCallback ==
    /\ \A i \in DOMAIN rxCbCalls : ~rxCbCalls[i].locked
    /\ ~rxBlocked

\* the packet the last ProcessPacket call was given
LastPkt == rxLast.pkt

\* the last Receiver operation was a ProcessPacket call of the listening goroutine
Processed == rxLastOp = "process" /\ rxLast.via = "Listen" /\ ~LastPkt.nil

\* every buffer the last ProcessPacket call sent or left to a goroutine to send
LastOut == rxLast.out.sync \o rxLast.out.async

\* the sequence number a packet carries, as a 32-bit value
SeqOf(pkt) == U32(0, pkt.Reserved[1] + 256 * pkt.Reserved[2])

\* buf is an Ack from this receiver carrying sequence number seq: read as a
\* Frame, or read as a Packet with the sequence in its two header bytes
IsAckWithSeq(buf, seq) ==
    \/ LET f == DecodeFrame(buf)
       IN  ~f.nil /\ f.Type = FrameTypeAck /\ f.SenderID = rxId /\ f.Seq = seq
    \/ LET q == DecodePacket(buf)
       IN  ~q.nil /\ q.Type = PacketTypeAck /\ q.SenderID = rxId /\ SeqOf(q) = seq

\* the last packet processed was a Data packet with a payload from a sender in the registry
AcceptedData ==
    /\ Processed
    /\ LastPkt.Type = PacketTypeData
    /\ Len(LastPkt.Payload) > 0
    /\ LastPkt.SenderID \in DOMAIN rxLast.reg

\* C12: a Data packet with a non-empty payload from a paired sender refreshes
\* the sender's LastSeen, has exactly one Ack sent that comes from this
\* receiver and carries the data packet's sequence number, and has the Data
\* callback, if one is registered, invoked once with sender, sequence and payload.
C12_AcceptedData ==
    AcceptedData =>
        /\ LastPkt.SenderID \in DOMAIN rxReg
        /\ rxReg[LastPkt.SenderID].LastSeen = rxLast.now
        /\ Len(LastOut) = 1
        /\ IsAckWithSeq(LastOut[1], SeqOf(LastPkt))
        /\ rxCallback # "none" =>
              /\ Len(rxCbCalls) = 1
              /\ rxCbCalls[1].SenderID = LastPkt.SenderID
              /\ rxCbCalls[1].Reserved = LastPkt.Reserved
              /\ rxCbCalls[1].Payload = LastPkt.Payload

\* the last packet processed was a Pairing packet of at least 8 payload bytes
\* whose bytes 4..7 name this receiver
AcceptedPairing ==
    /\ Processed
    /\ LastPkt.Type = PacketTypePairing
    /\ Len(LastPkt.Payload) >= 8
    /\ Uint32(SubSeq(LastPkt.Payload, 5, 8)) = rxId

\* C13: a Pairing packet addressed to this receiver puts the sender in the
\* registry, paired, with the key of payload bytes 0..3 and a fresh
\* LastSeen, and one Ack is sent that carries the pairing packet's sequence
\* number and has this receiver's identity as payload.
C13_ReceiverPairing ==
    AcceptedPairing =>
        /\ LastPkt.SenderID \in DOMAIN rxReg
        /\ rxReg[LastPkt.SenderID] =
              Device(Uint32(SubSeq(LastPkt.Payload, 1, 4)), TRUE, rxLast.now)
        /\ \A id \in DOMAIN rxLast.reg \ {LastPkt.SenderID} :
              id \in DOMAIN rxReg /\ rxReg[id] = rxLast.reg[id]
        /\ Len(LastOut) = 1
        /\ IsAckWithSeq(LastOut[1], SeqOf(LastPkt))
        /\ \/ LET f == DecodeFrame(LastOut[1])
                IN  ~f.nil /\ f.Payload = PutUint32(rxId)
           \/ LET q == DecodePacket(LastOut[1])
                IN  ~q.nil /\ q.Payload = PutUint32(rxId)

\* the last packet processed was a Pairing packet that names another
\* receiver or has fewer than 8 payload bytes
IgnoredPairing ==
    /\ Processed
    /\ LastPkt.Type = PacketTypePairing
    /\ \/ Len(LastPkt.Payload) < 8
       \/ Uint32(SubSeq(LastPkt.Payload, 5, 8)) # rxId

\* C14: a Pairing packet that names another receiver, or whose payload is
\* shorter than 8 bytes, leaves the registry exactly as it was (no entry
\* created, no key, no LastSeen changed) and no Ack is sent.
C14_PairingIgnored ==
    IgnoredPairing =>
        /\ rxReg = rxLast.reg
        /\ LastOut = <<>>

\* a request for another receiver, with another key, from a device that is
\* in the registry and was last seen earlier
C14_Witness ==
    /\ IgnoredPairing
    /\ Len(LastPkt.Payload) >= 8
    /\ LastPkt.SenderID \in DOMAIN rxLast.reg
    /\ rxLast.reg[LastPkt.SenderID].PairingKey # Uint32(SubSeq(LastPkt.Payload, 1, 4))
    /\ rxLast.reg[LastPkt.SenderID].LastSeen < rxLast.now
    /\ rxReg = rxLast.reg

\* a request with a 7-byte payload from a device that is not in the registry
C14_ShortReached ==
    /\ IgnoredPairing
    /\ Len(LastPkt.Payload) = 7
    /\ LastPkt.SenderID \notin DOMAIN rxLast.reg
    /\ rxReg = rxLast.reg

\* the last packet processed was a Data packet from a sender that is not in
\* the registry, or one without payload bytes
UnacceptableData ==
    /\ Processed
    /\ LastPkt.Type = PacketTypeData
    /\ \/ LastPkt.SenderID \notin DOMAIN rxLast.reg
       \/ Len(LastPkt.Payload) = 0

\* C15: a Data packet from a sender that is not in the registry, or with an
\* empty payload, leaves the registry as it was, has no Ack sent and no
\* callback invoked.
C15_DataIgnored ==
    UnacceptableData =>
        /\ rxReg = rxLast.reg
        /\ LastOut = <<>>
        /\ rxCbCalls = <<>>

----------------------------------------------------------------------------
(* Claims about ReceiveData, checked under SpecRecv                        *)

\* the buffer is a Data packet whose sender was in the registry when
\* ReceiveData looked it up
IsKnownData(e) ==
    LET q == DecodePacket(e.data)
    IN  e.checked /\ ~q.nil /\ q.Type = PacketTypeData /\ q.SenderID \in DOMAIN e.at

\* the buffers the ReceiveData call received that are Data packets of registered senders
KnownData == {i \in DOMAIN rxRecv.got : IsKnownData(rxRecv.got[i])}

\* the call is between ReceivePacket and the end of the turn for its last buffer
RecvInTurn(i) == i = Len(rxRecv.got) /\ rxRecv.pc \in {"process", "lookup"}

\* C20: ReceiveData called with an empty registry returns NotPaired without
\* an Rx call.  Otherwise it processes every packet it receives, returns the
\* payload of the first Data packet whose sender is in the registry, at
\* once, skipping Data packets of other senders, and returns Timeout when
\* the deadline passes without such a packet.
C20_ReceiveData ==
    /\ rxRecv.empty =>
          /\ rxRecv.res = "NotPaired"
          /\ rxRecv.rx = 0
          /\ rxRecv.got = <<>>
    /\ rxRecv.res = "NotPaired" => rxRecv.empty
    /\ (~rxRecv.empty /\ rxRecv.res # "none") =>
          /\ \A i \in DOMAIN rxRecv.got :
                LET q == DecodePacket(rxRecv.got[i].data)
                IN  ~q.nil =>
                       /\ rxRecv.got[i].processed \/ RecvInTurn(i)
                       /\ q.Type = PacketTypeData => rxRecv.got[i].checked \/ RecvInTurn(i)
          /\ rxRecv.res \in {"pending", "ok", "Timeout"}
          /\ (rxRecv.res = "ok") <=> (KnownData # {})
          /\ KnownData # {} =>
                /\ KnownData = {Len(rxRecv.got)}
                /\ rxRecv.data = DecodePacket(rxRecv.got[Len(rxRecv.got)].data).Payload
          /\ rxRecv.res = "Timeout" => rxRecv.polls = 0

\* a Data packet of a device that is not in the registry was skipped, the
\* Data packet of the registered device that followed was returned
C20_Witness ==
    /\ rxRecv.res = "ok"
    /\ rxRecv.data = <<1, 2, 3>>
    /\ Len(rxRecv.got) = 2
    /\ LET q == DecodePacket(rxRecv.got[1].data)
       IN  /\ ~q.nil /\ q.Type = PacketTypeData
           /\ rxRecv.got[1].checked
           /\ q.SenderID \notin DOMAIN rxRecv.got[1].at

\* ReceiveData returned the payload of a Data packet whose sender a listening
\* goroutine registered between the call's ProcessPacket and its lookup
C20_RegisteredMeanwhileReached ==
    /\ rxRecv.res = "ok"
    /\ LET e == rxRecv.got[Len(rxRecv.got)]
       IN  /\ DecodePacket(e.data).SenderID \notin DOMAIN e.reg
           /\ DecodePacket(e.data).SenderID \in DOMAIN e.at

\* ReceiveData on an empty registry
C20_NotPairedReached == rxRecv.empty /\ rxRecv.res = "NotPaired"

\* ReceiveData ran into its deadline after a heartbeat
C20_TimeoutReached ==
    /\ rxRecv.res = "Timeout"
    /\ Len(rxRecv.got) >= 1
    /\ LET q == DecodePacket(rxRecv.got[1].data)
       IN  ~q.nil /\ q.Type = PacketTypeHeartbeat

----------------------------------------------------------------------------
(* Claims about Receiver.StartPairing, checked under SpecWait              *)

\* a step in which a Receiver.StartPairing call starts
PairCall == rxPair.pc = "idle" /\ rxPair'.pc = "poll"

\* a step in which a Receiver.StartPairing call returns
PairReturn == rxPair.pc # "idle" /\ rxPair'.pc = "idle"

\* the call processed a Pairing packet after which the registry held a device
PairedBy(got) == \E k \in DOMAIN got : got[k].processed /\ got[k].paired

\* C21: Receiver.StartPairing restores the listening flag: on both return
\* paths (success and Timeout) the flag has the value it had when the call
\* was made; the call returns Timeout exactly when it processed no Pairing
\* packet that left the registry with a paired device before its deadline
C21_StartPairingRestores ==
    [][/\ PairCall => rxPair'.was = rxListening
       /\ PairReturn =>
             /\ rxListening' = rxPair.was
             /\ rxPair'.res \in {"ok", "Timeout"}
             /\ (rxPair'.res = "Timeout") <=> ~PairedBy(rxPair'.got)
             /\ (rxPair'.res = "Timeout") => rxPair.polls = 0]_vars

\* a call made while not listening has returned success and the flag is off again
C21_Witness ==
    /\ rxPair.pc = "idle"
    /\ rxPair.res = "ok"
    /\ ~rxPair.was
    /\ ~rxListening
    /\ PairedBy(rxPair.got)
    /\ TxId \in DOMAIN rxReg

\* a call made while listening has timed out on packets that paired nobody, the flag still on
C21_TimeoutReached ==
    /\ rxPair.pc = "idle"
    /\ rxPair.res = "Timeout"
    /\ rxPair.was
    /\ rxListening
    /\ Len(rxPair.got) = MaxInject
    /\ \E k \in DOMAIN rxPair.got : rxPair.got[k].processed

\* a call made while not listening has timed out and the flag is off again
C21_TimeoutOffReached ==
    /\ rxPair.pc = "idle"
    /\ rxPair.res = "Timeout"
    /\ ~rxPair.was
    /\ ~rxListening

----------------------------------------------------------------------------
(* Claims about the listening goroutine, checked under SpecLoop and        *)
(* SpecLoopFair                                                            *)

\* a step that is a call of Listen made while the Receiver is listening
ListenAgain == rxListening /\ rxLastOp # "listen" /\ rxLastOp' = "listen"

\* C22: Listen is an idempotent start: a call of Listen made while the
\* Receiver is already listening starts no further polling goroutine and
\* changes nothing of the Receiver's state
C22_ListenIdempotent ==
    [][ListenAgain =>
          /\ rxLoops' = rxLoops
          /\ UNCHANGED <<rxId, rxReg, rxListening, rxLog, rxRxQ, rxAcks, taskOn, taskWake,
                         rxCallback, rxBlocked, rxRecv, rxPair, rxHeld>>]_vars

\* Listen has been called again while one goroutine polls and a buffer waits
C22_Witness ==
    /\ rxLastOp = "listen"
    /\ rxListening
    /\ LoopCount = 1
    /\ ~rxLast.pkt.nil
    /\ rxRxQ # <<>>

\* the Rx attempts in progress: goroutines inside ReceivePacket or holding
\* the packet it returned
RxAttempts == rxLoops.rx + Len(rxLoops.got)

\* once stopped, no goroutine starts a new Rx attempt
NoNewAttempt == (~rxListening /\ ~rxListening') => rxLoops'.rx <= rxLoops.rx

\* C23: cooperative stop: StopListening returns without waiting for the loop
\* (the goroutines are as they were); after it, if Listen is not called
\* again, no new Rx attempt starts and at most the single attempt already in
\* progress can still hand a packet to ProcessPacket; the polling loop
\* eventually terminates
C23_CooperativeStop ==
    /\ [][(rxLastOp' = "stop" /\ rxLastOp # "stop") => rxLoops' = rxLoops]_vars
    /\ [][NoNewAttempt]_vars
    /\ [](~rxListening => RxAttempts <= 1)
    /\ (~rxListening) ~> (rxListening \/ LoopCount = 0)

\* a step in which a listening goroutine's Rx returns a buffer
Delivered == rxLoops.rx > 0 /\ rxRxQ # <<>> /\ rxRxQ' = Tail(rxRxQ)

\* C24: decode failures are dropped silently: when the polling loop receives
\* a buffer that DecodeFrame rejects, the registry is unchanged, no Ack is
\* transmitted, no callback is invoked, and the loop remains listening and
\* goes on to its next Rx attempt
C24_DecodeFailureDropped ==
    [][(Delivered /\ DecodeFrame(Head(rxRxQ)).nil) =>
          /\ rxReg' = rxReg
          /\ rxLog' = rxLog
          /\ rxAcks' = rxAcks
          /\ rxCbCalls' = <<>>
          /\ rxBlocked' = rxBlocked
          /\ rxListening' = rxListening
          /\ rxLoops' = [rxLoops EXCEPT !.head = @ + 1, !.rx = @ - 1]]_vars

----------------------------------------------------------------------------
(* Claims about the blocking calls, checked under SpecBlock                *)

\* C25: no operation blocks indefinitely: with a driver whose Tx returns and
\* whose Rx returns within its timeout, every call of Transmitter.StartPairing,
\* SendDataReliable, Receiver.StartPairing and ReceiveData eventually returns,
\* whatever arrives
C25_NoIndefiniteBlocking ==
    /\ (txOp.name # "idle") ~> (txOp.name = "idle")
    /\ (rxPair.pc # "idle") ~> (rxPair.pc = "idle")
    /\ (rxRecv.pc # "idle") ~> (rxRecv.pc = "idle")

----------------------------------------------------------------------------
(* Claims about the mutex and the driver, checked under SpecProc           *)

\* the mutex is held when the k-th statement of the trace runs
LockedAt(trace, k) ==
    \E i \in 1..(k - 1) :
        /\ trace[i] = "Lock"
        /\ \A j \in i..k : trace[j] # "Unlock"

\* C26: Receiver.mu is never held across radio I/O: in no ProcessPacket call,
\* the Pairing case that sends an Ack included, is the driver's Tx called
\* while the mutex is held
C26_NoLockAcrossIO ==
    Processed =>
        \A k \in DOMAIN rxLast.trace : rxLast.trace[k] = "Tx" => ~LockedAt(rxLast.trace, k)

\* C27: synchronous Ack: for an accepted Data packet the Ack is transmitted
\* inline by ProcessPacket: it has been handed to the driver before the Data
\* callback is invoked and before ProcessPacket returns, nothing being left
\* to a goroutine, so Acks leave in the order the packets were processed
C27_SynchronousAck ==
    AcceptedData =>
        /\ Len(rxLast.out.sync) = 1
        /\ rxLast.out.async = <<>>
        /\ \E k \in DOMAIN rxLast.trace :
              /\ rxLast.trace[k] = "Tx"
              /\ \A j \in DOMAIN rxLast.trace : rxLast.trace[j] = "callback" => k < j

----------------------------------------------------------------------------
(* Claims about the sequence number of a reliable send, checked under SpecTx *)

\* the last call is a SendDataReliable that passed its checks
ReliableSend ==
    /\ txCall.name = "SendDataReliable"
    /\ txCall.paired
    /\ txCall.plen <= MaxPayloadSize

\* C28: one sequence number per reliable send: every transmission of one
\* SendDataReliable call, the first attempt and the retries, is the same
\* buffer byte for byte and carries the sequence number the counter had when
\* the call was made; the call advances the counter by exactly 1, however
\* many attempts it makes
C28_OneSeqPerReliableSend ==
    ReliableSend =>
        /\ \A i \in SentByCall :
              /\ \A j \in SentByCall : txTag[i].data = txTag[j].data
              /\ WireType(txTag[i].data) = FrameTypeData
              /\ WireSeq(txTag[i].data) = txCall.seq
              /\ WirePayload(txTag[i].data) = txCall.payload
        /\ IsSucc32(txCall.seq, txSeq)

\* a call has made three attempts and timed out
C28_Witness ==
    /\ ReliableSend
    /\ txRes = "Timeout"
    /\ txCall.maxRetries = 3
    /\ Cardinality(SentByCall) = 3
    /\ IsSucc32(txCall.seq, txSeq)

\* a call with maxRetries = 0 has returned without a transmission, the counter advanced
C28_NoAttemptReached ==
    /\ ReliableSend
    /\ txRes = "Timeout"
    /\ txCall.maxRetries = 0
    /\ SentByCall = {}
    /\ IsSucc32(txCall.seq, txSeq)

\* a call has succeeded on its second attempt
C28_RetrySuccessReached ==
    /\ ReliableSend
    /\ txRes = "ok"
    /\ Cardinality(SentByCall) = 2

----------------------------------------------------------------------------
(* Claims about heartbeats, checked under SpecBeat                         *)

\* the last packet processed was a Heartbeat
Beat == Processed /\ LastPkt.Type = PacketTypeHeartbeat

\* C29: heartbeat handling: a Heartbeat from a sender in the registry
\* refreshes that sender's LastSeen and nothing else; a Heartbeat from a
\* sender that is not in the registry changes nothing and creates no entry;
\* in neither case is an Ack transmitted or a callback invoked
C29_Heartbeat ==
    Beat =>
        /\ DOMAIN rxReg = DOMAIN rxLast.reg
        /\ \A id \in DOMAIN rxReg :
              rxReg[id] = IF id = LastPkt.SenderID
                          THEN [rxLast.reg[id] EXCEPT !.LastSeen = rxLast.now]
                          ELSE rxLast.reg[id]
        /\ LastOut = <<>>
        /\ rxCbCalls = <<>>

\* a Heartbeat from one of two registered senders has moved its LastSeen
\* forward, with a callback registered
C29_Witness ==
    /\ Beat
    /\ rxCallback # "none"
    /\ DOMAIN rxLast.reg = RegPeers
    /\ rxLast.reg[LastPkt.SenderID].LastSeen < rxLast.now
    /\ rxReg[LastPkt.SenderID].LastSeen = rxLast.now
    /\ \E id \in RegPeers : rxReg[id].LastSeen < rxLast.now

\* a Heartbeat from a stranger has been processed while another device is registered
C29_StrangerReached ==
    /\ Beat
    /\ LastPkt.SenderID \notin DOMAIN rxLast.reg
    /\ rxLast.reg # <<>>
    /\ rxCallback # "none"

----------------------------------------------------------------------------
(* Claims about Device pointers held by the application, checked under     *)
(* SpecHeld                                                                *)

\* C30: eviction invalidates before deleting: CleanupDeadDevices clears
\* IsPaired on a stale Device before it removes it from the registry, so in
\* every reachable state a Device pointer the application obtained earlier
\* and whose Device is no longer in the registry reads IsPaired = false
\* (and one whose Device is still in the registry reads what the registry holds)
C30_EvictionInvalidates ==
    \A h \in rxHeld :
        IF h.inReg
        THEN h.id \in DOMAIN rxReg /\ h.IsPaired = rxReg[h.id].IsPaired
        ELSE ~h.IsPaired

\* the application holds the pointer of a Device that was evicted, while the
\* same sender has paired again and is in the registry as a new Device
C30_Witness ==
    /\ rxLastOp = "process"
    /\ \E h \in rxHeld :
          /\ ~h.inReg
          /\ ~h.IsPaired
          /\ h.id \in DOMAIN rxReg
          /\ rxReg[h.id].IsPaired

\* a cleanup has just removed one held Device and kept another
C30_PartialReached ==
    /\ rxLastOp = "cleanup"
    /\ \E h \in rxHeld : ~h.inReg /\ h.id \notin DOMAIN rxReg
    /\ \E h \in rxHeld : h.inReg /\ h.id \in DOMAIN rxReg

----------------------------------------------------------------------------
(* The sequence counter with the heartbeat task running (SpecSeq): the     *)
(* application calls SendData while the goroutine of StartHeartbeatTask    *)
(* calls SendHeartbeat.  The Transmitter has no mutex, so the statements   *)
(* seq := t.seq and t.seq++ of the two goroutines interleave; t.seq++ is a *)
(* load followed by a store.                                               *)

\* how many frames each goroutine sends
MaxSends == 2

\* the counter of a paired transmitter: the pairing request took sequence 0
SeqAfterPairing == U32(0, 1)

\* the payload of the application's SendData
GoPayload == <<7>>

\* the goroutine of StartHeartbeatTask before the task is started
NoGo == [pc |-> "off", type |-> 0, seq |-> Zero32, tmp |-> Zero32, n |-> 0]

\* a paired Transmitter (the tests set the flag directly), no heartbeat task yet
SeqInit ==
    /\ CodecOff
    /\ RxOff
    /\ EnvOff
    /\ txPaired = TRUE
    /\ txSeq = SeqAfterPairing
    /\ txReceiver = RxId
    /\ txKey = TxKey
    /\ txLog = <<>>
    /\ txRxQ = <<>>
    /\ txOp = IdleOp
    /\ txRes = "none"
    /\ txCall = NoCall
    /\ txTag = <<>>
    /\ txRcvd = <<>>
    /\ txGo = [g \in Goroutines |-> IF g = "beat" THEN NoGo ELSE IdleGo]
    /\ TraceOff
    /\ RingOff

\* Transmitter.StartHeartbeatTask(): go func() { for range ticker.C { t.SendHeartbeat() } }
StartHeartbeatTask ==
    /\ txGo["beat"].pc = "off"
    /\ txGo' = [txGo EXCEPT !["beat"].pc = "idle"]
    /\ UNCHANGED txVars
    /\ UNCHANGED <<rxAccepted, rxAccess, rxBeat, ringVars>>

\* goroutine g enters SendFrame and passes its checks: SendData (application)
\* or SendHeartbeat (the ticker has fired)
GoSendFrame(g, FrameType, payload) ==
    /\ txGo[g].pc = "idle"
    /\ txGo[g].n < MaxSends
    /\ SendFrameErr(txPaired, FrameType, payload) = "ok"
    /\ txGo' = [txGo EXCEPT ![g].pc = "read", ![g].type = FrameType, ![g].n = @ + 1]
    /\ UNCHANGED txVars
    /\ UNCHANGED <<rxAccepted, rxAccess, rxBeat, ringVars>>

\* seq := t.seq
GoReadSeq(g) ==
    /\ txGo[g].pc = "read"
    /\ txGo' = [txGo EXCEPT ![g].pc = "load", ![g].seq = txSeq]
    /\ UNCHANGED txVars
    /\ UNCHANGED <<rxAccepted, rxAccess, rxBeat, ringVars>>

\* t.seq++, the load
GoIncLoad(g) ==
    /\ txGo[g].pc = "load"
    /\ txGo' = [txGo EXCEPT ![g].pc = "store", ![g].tmp = txSeq]
    /\ UNCHANGED txVars
    /\ UNCHANGED <<rxAccepted, rxAccess, rxBeat, ringVars>>

\* t.seq++, the store
GoIncStore(g) ==
    /\ txGo[g].pc = "store"
    /\ txSeq' = NextSeq(txGo[g].tmp)
    /\ txGo' = [txGo EXCEPT ![g].pc = "tx"]
    /\ UNCHANGED <<txPaired, txReceiver, txKey, txLog, txRxQ, txOp, txRes, txCall, txTag, txRcvd>>
    /\ UNCHANGED <<rxAccepted, rxAccess, rxBeat, ringVars>>

\* driver.Tx(EncodeFrame(frame)): the frame carries the sequence number read at the start
GoTx(g) ==
    /\ txGo[g].pc = "tx"
    /\ LET hasPayload == txGo[g].type = FrameTypeData
           payload == IF hasPayload THEN GoPayload ELSE <<>>
           data == EncodeFrame(Frame(TxId, txGo[g].type, txGo[g].seq, hasPayload, payload))
       IN  /\ txLog' = Append(txLog, data)
           /\ txTag' = Append(txTag, [call |-> Len(txTag) + 1, rel |-> 0, via |-> g, data |-> data])
    /\ txGo' = [txGo EXCEPT ![g].pc = "idle"]
    /\ UNCHANGED <<txPaired, txSeq, txReceiver, txKey, txRxQ, txOp, txRes, txCall, txRcvd>>
    /\ UNCHANGED <<rxAccepted, rxAccess, rxBeat, ringVars>>

SeqStartHeartbeatTask ==
    /\ StartHeartbeatTask
    /\ UNCHANGED <<codecVars, rxVars, envVars>>

SeqSendData ==
    /\ GoSendFrame("app", FrameTypeData, GoPayload)
    /\ UNCHANGED <<codecVars, rxVars, envVars>>

SeqSendHeartbeat ==
    /\ GoSendFrame("beat", FrameTypeHeartbeat, <<>>)
    /\ UNCHANGED <<codecVars, rxVars, envVars>>

SeqReadSeq ==
    /\ \E g \in Goroutines : GoReadSeq(g)
    /\ UNCHANGED <<codecVars, rxVars, envVars>>

SeqIncLoad ==
    /\ \E g \in Goroutines : GoIncLoad(g)
    /\ UNCHANGED <<codecVars, rxVars, envVars>>

SeqIncStore ==
    /\ \E g \in Goroutines : GoIncStore(g)
    /\ UNCHANGED <<codecVars, rxVars, envVars>>

SeqTx ==
    /\ \E g \in Goroutines : GoTx(g)
    /\ UNCHANGED <<codecVars, rxVars, envVars>>

SeqNext ==
    \/ SeqStartHeartbeatTask
    \/ SeqSendData
    \/ SeqSendHeartbeat
    \/ SeqReadSeq
    \/ SeqIncLoad
    \/ SeqIncStore
    \/ SeqTx

SpecSeq == SeqInit /\ [][SeqNext]_vars

----------------------------------------------------------------------------
(* The same for the Transmitter of the Packet format (SpecPacketSeq): its  *)
(* StartHeartbeatTask starts a goroutine that calls SendHeartbeat at once  *)
(* and then every HeartbeatInterval, beside the application's SendData and *)
(* SendHeartbeat; SendPacket has no mutex either, the counter is a uint16  *)

\* where the counter stands: after some sends, and about to wrap
PacketSeqStarts == {U32(0, 5), U32(0, 65535)}

\* a Transmitter, paired or not (the tests set the flag directly), no
\* heartbeat task yet
PacketSeqInit ==
    /\ CodecOff
    /\ RxOff
    /\ EnvOff
    /\ txPaired \in BOOLEAN
    /\ txSeq \in PacketSeqStarts
    /\ txReceiver = RxId
    /\ txKey = TxKey
    /\ txLog = <<>>
    /\ txRxQ = <<>>
    /\ txOp = IdleOp
    /\ txRes = "none"
    /\ txCall = NoCall
    /\ txTag = <<>>
    /\ txRcvd = <<>>
    /\ txGo = [g \in Goroutines |-> IF g = "beat" THEN NoGo ELSE IdleGo]
    /\ TraceOff
    /\ RingOff

\* Transmitter.StartHeartbeatTask() of the Packet format:
\* go func() { for { _ = t.SendHeartbeat(); time.Sleep(...) } }()
PacketStartHeartbeatTask ==
    /\ txGo["beat"].pc = "off"
    /\ txGo' = [txGo EXCEPT !["beat"].pc = "idle"]
    /\ UNCHANGED txVars
    /\ UNCHANGED <<rxAccepted, rxAccess, rxBeat, ringVars>>

\* goroutine g calls SendData (application) or SendHeartbeat (application,
\* or the task's goroutine at its start and after each sleep): the call
\* returns the error of the checks, or goes on into SendPacket
PacketGoSend(g, packetType, payload) ==
    /\ txGo[g].pc = "idle"
    /\ txGo[g].n < MaxSends
    /\ txGo' = IF SendPacketErr(txPaired, packetType, payload) = "ok"
               THEN [txGo EXCEPT ![g].pc = "read", ![g].type = packetType, ![g].n = @ + 1]
               ELSE [txGo EXCEPT ![g].n = @ + 1]
    /\ UNCHANGED txVars
    /\ UNCHANGED <<rxAccepted, rxAccess, rxBeat, ringVars>>

\* t.seq++ on the uint16 counter, the store
PacketGoIncStore(g) ==
    /\ txGo[g].pc = "store"
    /\ txSeq' = PacketNextSeq(txGo[g].tmp)
    /\ txGo' = [txGo EXCEPT ![g].pc = "tx"]
    /\ UNCHANGED <<txPaired, txReceiver, txKey, txLog, txRxQ, txOp, txRes, txCall, txTag, txRcvd>>
    /\ UNCHANGED <<rxAccepted, rxAccess, rxBeat, ringVars>>

\* driver.Tx(EncodePacket(pkt)): the packet carries the sequence number read at the start
PacketGoTx(g) ==
    /\ txGo[g].pc = "tx"
    /\ LET hasPayload == txGo[g].type = PacketTypeData
           payload == IF hasPayload THEN GoPayload ELSE <<>>
           data == EncodePacket(Packet(TxId, txGo[g].type, SeqBytes(txGo[g].seq), hasPayload, payload))
       IN  /\ txLog' = Append(txLog, data)
           /\ txTag' = Append(txTag, [call |-> Len(txTag) + 1, rel |-> 0, via |-> g, data |-> data])
    /\ txGo' = [txGo EXCEPT ![g].pc = "idle"]
    /\ UNCHANGED <<txPaired, txSeq, txReceiver, txKey, txRxQ, txOp, txRes, txCall, txRcvd>>
    /\ UNCHANGED <<rxAccepted, rxAccess, rxBeat, ringVars>>

PacketSeqStartHeartbeatTask ==
    /\ PacketStartHeartbeatTask
    /\ UNCHANGED <<codecVars, rxVars, envVars>>

PacketSeqSendData ==
    /\ PacketGoSend("app", PacketTypeData, GoPayload)
    /\ UNCHANGED <<codecVars, rxVars, envVars>>

\* the application's own SendHeartbeat
PacketSeqSendHeartbeat ==
    /\ PacketGoSend("app", PacketTypeHeartbeat, <<>>)
    /\ UNCHANGED <<codecVars, rxVars, envVars>>

\* the task's goroutine calls SendHeartbeat
PacketSeqTaskHeartbeat ==
    /\ PacketGoSend("beat", PacketTypeHeartbeat, <<>>)
    /\ UNCHANGED <<codecVars, rxVars, envVars>>

PacketSeqIncStore ==
    /\ \E g \in Goroutines : PacketGoIncStore(g)
    /\ UNCHANGED <<codecVars, rxVars, envVars>>

PacketSeqTx ==
    /\ \E g \in Goroutines : PacketGoTx(g)
    /\ UNCHANGED <<codecVars, rxVars, envVars>>

\* seq := t.seq and the load of t.seq++ are the same statements in both Transmitters
PacketSeqNext ==
    \/ PacketSeqStartHeartbeatTask
    \/ PacketSeqSendData
    \/ PacketSeqSendHeartbeat
    \/ PacketSeqTaskHeartbeat
    \/ SeqReadSeq
    \/ SeqIncLoad
    \/ PacketSeqIncStore
    \/ PacketSeqTx

SpecPacketSeq == PacketSeqInit /\ [][PacketSeqNext]_vars

\* the task's first heartbeat went out with the last number of the uint16
\* counter and the counter has wrapped to 0
PacketTaskWrapReached ==
    /\ Len(txTag) = 1
    /\ txTag[1].via = "beat"
    /\ txTag[1].data = <<7, 254, 202, 0, 0, PacketTypeHeartbeat, 255, 255>>
    /\ txSeq = Zero32
    /\ \A g \in Goroutines : txGo[g].pc = "idle"

\* the task's heartbeat and the application's Data packet went out with the
\* same sequence number
PacketSameSeqReached ==
    \E i, j \in DOMAIN txTag :
        /\ txTag[i].via = "app"
        /\ txTag[j].via = "beat"
        /\ DecodePacket(txTag[i].data).Reserved = DecodePacket(txTag[j].data).Reserved

----------------------------------------------------------------------------
(* Claims about the sequence counter under concurrent senders (SpecSeq)    *)

\* no goroutine is inside SendFrame
GoQuiet == \A g \in Goroutines : txGo[g].pc \in {"idle", "off"}

\* the sequence numbers of the frames handed to the driver
SeqsSent == {WireSeq(txTag[i].data) : i \in DOMAIN txTag}

\* C31: with the heartbeat task running beside the application's sends, no
\* two send operations put the same sequence number on the air, and when no
\* send is in progress the numbers used are the consecutive ones from the
\* first to the counter's value, none skipped
C31_UniqueSequence ==
    /\ \A i, j \in DOMAIN txTag :
          i # j => WireSeq(txTag[i].data) # WireSeq(txTag[j].data)
    /\ GoQuiet =>
          /\ txSeq = U32(0, SeqAfterPairing.lo + Len(txTag))
          /\ SeqsSent = {U32(0, k) : k \in SeqAfterPairing.lo .. (SeqAfterPairing.lo + Len(txTag) - 1)}

\* the counter serves one goroutine at a time: a frame of each goroutine was
\* sent while the other was outside SendFrame
C31_BothSentReached ==
    /\ GoQuiet
    /\ \E i, j \in DOMAIN txTag : txTag[i].via = "app" /\ txTag[j].via = "beat"

----------------------------------------------------------------------------
(* Several transmitters on one channel (SpecShare): the Transmitter and    *)
(* the Receiver of SpecPair, and a second transmitter, 0xF00D, whose        *)
(* packets reach the receiver's driver; what the receiver sends is carried *)
(* to the Transmitter's driver by the forwarding goroutine                 *)

\* the pairing request of transmitter 0xF00D, sequence number seq, addressed
\* to the receiver rid
OtherRequest(rid, seq) ==
    EncodePacket(Packet(OtherId, PacketTypePairing, SeqBytes(seq), TRUE,
                        PutUint32(TxKey) \o PutUint32(rid)))

\* the pairing request of transmitter 0xF00D arrives at the receiver's driver
ShareOtherRequest ==
    /\ rxListening
    /\ peerSent < MaxInject
    /\ Len(rxRxQ) < MaxQueue
    /\ \E seq \in PairSeqStarts : rxRxQ' = InjectRx(rxRxQ, OtherRequest(rxId, seq))
    /\ peerSent' = peerSent + 1
    /\ UNCHANGED <<rxId, rxReg, rxListening, rxLog, rxAcks, taskOn, taskWake, rxLastOp, rxPre, appVars>>
    /\ UNCHANGED <<codecVars, otherVars, txVars, linked, fwd, now, silent>>

ShareNext ==
    \/ PairListen
    \/ PairListenStart
    \/ PairStartPairing
    \/ PairPairingPoll
    \/ PairPairingDeadline
    \/ PairSendData
    \/ PairSendHeartbeat
    \/ ForwardGetTxLog
    \/ ForwardInjectRx
    \/ ForwardClearTxLog
    \/ ListenLoopTest
    \/ ListenLoopRx
    \/ ListenLoopProcessLast
    \/ PairAckTaskRun
    \/ ShareOtherRequest

SpecShare == PairInit /\ [][ShareNext]_vars

\* the receiver holds the transmitter as a paired device
RegisteredAtReceiver == TxId \in DOMAIN rxReg /\ rxReg[TxId].IsPaired

\* C32: when Transmitter.StartPairing returns success the receiver has
\* processed this transmitter's pairing request and holds it as paired; an
\* Ack sent in answer to another transmitter's request never makes this
\* transmitter paired
C32_PairingAckAttribution ==
    /\ (txCall.name = "StartPairing" /\ txRes = "ok") => RegisteredAtReceiver
    /\ txPaired => RegisteredAtReceiver

\* both transmitters are registered and the call has returned success
C32_BothRegisteredReached ==
    /\ txCall.name = "StartPairing"
    /\ txRes = "ok"
    /\ RegisteredAtReceiver
    /\ OtherId \in DOMAIN rxReg

----------------------------------------------------------------------------
(* A reliable send on a shared channel (SpecRelay): a paired Transmitter   *)
(* and the Receiver with their drivers wired together, and the packets of  *)
(* a second transmitter, 0xF00D, arriving at the receiver's driver.        *)

\* the Data case of ProcessPacket accepts the packet
DataAccepted(pkt, reg) ==
    /\ ~pkt.nil
    /\ pkt.Type = PacketTypeData
    /\ pkt.SenderID \in DOMAIN reg
    /\ pkt.HasPayload

\* the registry before the send: 0xF00D has paired with the receiver, the
\* Transmitter has or has not
RelayRegs ==
    {[id \in peers |-> Device(TxKey, TRUE, 0)] : peers \in {{OtherId}, {TxId, OtherId}}}

\* the Data packets of transmitter 0xF00D: one with the sequence number of
\* the send in progress, one with the next number
RelayOtherPackets ==
    {EncodePacket(Packet(OtherId, PacketTypeData, SeqBytes(PeerSeq), TRUE, <<9>>)),
     EncodePacket(Packet(OtherId, PacketTypeData, SeqBytes(PacketNextSeq(PeerSeq)), TRUE, <<9>>))}

\* a paired Transmitter (the tests set the flag directly) and a Receiver
\* that is not listening yet
RelayInit ==
    /\ CodecOff
    /\ OtherOff
    /\ txPaired = TRUE
    /\ txSeq = SeqAfterPairing
    /\ txReceiver = RxId
    /\ txKey = TxKey
    /\ txLog = <<>>
    /\ txRxQ = <<>>
    /\ txOp = IdleOp
    /\ txRes = "none"
    /\ txCall = NoCall
    /\ txTag = <<>>
    /\ txRcvd = <<>>
    /\ rxId = RxId
    /\ rxReg \in RelayRegs
    /\ rxListening = FALSE
    /\ rxLog = <<>>
    /\ rxRxQ = <<>>
    /\ rxAcks = <<>>
    /\ taskOn = FALSE
    /\ taskWake = 0
    /\ rxLastOp = "none"
    /\ rxPre = NoPre
    /\ AppOff
    /\ peerSent = 0
    /\ linked = TRUE
    /\ fwd = ForwardStart
    /\ now = 0
    /\ silent = {}

RelayListen ==
    /\ ~rxListening
    /\ ListenReturned
    /\ Listen
    /\ UNCHANGED <<codecVars, otherVars, txVars, envVars>>

\* the call goes on: the flag is set and the goroutine started
RelayListenStart ==
    /\ ListenStart
    /\ UNCHANGED <<codecVars, otherVars, txVars, envVars>>

\* the listening goroutine processes a packet; history: the accepted Data packets
RelayLoopProcess ==
    /\ \E k \in DOMAIN rxLoops.got :
          /\ LoopProcess(k)
          /\ rxAccepted' = IF DataAccepted(DecodePacket(rxLoops.got[k]), rxReg)
                           THEN rxAccepted \cup {rxLoops.got[k]}
                           ELSE rxAccepted
    /\ UNCHANGED <<rxLast, txGo, rxAccess, rxBeat, ringVars>>
    /\ UNCHANGED <<codecVars, txVars, envVars>>

RelayAckTaskRun ==
    /\ AckTaskRun
    /\ UNCHANGED <<codecVars, otherVars, txVars, envVars>>

RelaySendDataReliable ==
    /\ rxListening
    /\ txCall.n < 1
    /\ \E maxRetries \in {1, 2} : PacketSendDataReliable(<<7>>, maxRetries)
    /\ UNCHANGED <<codecVars, otherVars, rxVars, envVars>>

\* the Tx of an attempt, the end of its window and the return after the
\* last attempt are the same statements in both Transmitters
RelayReliableTransmit ==
    /\ ReliableTransmit
    /\ UNCHANGED <<codecVars, otherVars, rxVars, envVars>>

RelayReliablePoll ==
    /\ PacketReliablePoll
    /\ UNCHANGED <<codecVars, otherVars, rxVars, envVars>>

RelayReliableWindowEnd ==
    /\ ReliableWindowEnd
    /\ UNCHANGED <<codecVars, otherVars, rxVars, envVars>>

RelayReliableGiveUp ==
    /\ ReliableGiveUp
    /\ UNCHANGED <<codecVars, otherVars, rxVars, envVars>>

\* a Data packet of transmitter 0xF00D arrives at the receiver's driver
\* while the send is in progress
RelayOtherData ==
    /\ txOp.name = "SendDataReliable"
    /\ peerSent < MaxInject
    /\ Len(rxRxQ) < MaxQueue
    /\ \E data \in RelayOtherPackets : rxRxQ' = InjectRx(rxRxQ, data)
    /\ peerSent' = peerSent + 1
    /\ UNCHANGED <<rxId, rxReg, rxListening, rxLog, rxAcks, taskOn, taskWake, rxLastOp, rxPre, appVars>>
    /\ UNCHANGED <<codecVars, otherVars, txVars, linked, fwd, now, silent>>

RelayNext ==
    \/ RelayListen
    \/ RelayListenStart
    \/ ListenLoopTest
    \/ ListenLoopRx
    \/ RelayLoopProcess
    \/ RelayAckTaskRun
    \/ RelaySendDataReliable
    \/ RelayReliableTransmit
    \/ RelayReliablePoll
    \/ RelayReliableWindowEnd
    \/ RelayReliableGiveUp
    \/ ForwardGetTxLog
    \/ ForwardInjectRx
    \/ ForwardClearTxLog
    \/ RelayOtherData

SpecRelay == RelayInit /\ [][RelayNext]_vars

\* C33: SendDataReliable returns success only if the receiver accepted the
\* Data frame this transmitter sent for the call; the Ack for another
\* transmitter's frame with an equal sequence number, or the Ack of a device
\* other than the paired receiver, never completes the send
C33_ReliableAckAttribution ==
    (txCall.name = "SendDataReliable" /\ txRes = "ok") =>
        \E i \in SentByCall : txTag[i].data \in rxAccepted

\* the receiver accepts the transmitter's own Data packet and its Ack
\* completes the send
C33_OwnAckReached ==
    /\ txCall.name = "SendDataReliable"
    /\ txRes = "ok"
    /\ \E i \in SentByCall : txTag[i].data \in rxAccepted
    /\ \A data \in rxAccepted : DecodePacket(data).SenderID = TxId

----------------------------------------------------------------------------
(* Claims about the number of polling goroutines, checked under SpecLoop   *)

\* the goroutines started by Listen that have not ended
PollingLoops == LoopCount

\* C34: whatever the sequence of Listen and StopListening calls, at most one
\* polling goroutine is running at any time
C34_AtMostOneLoop == PollingLoops <= 1

\* two Listen calls have both read the flag as clear before either has
\* written it: each goes on to start a goroutine
C34_ConcurrentListenReached == rxLoops.set = 2

\* the Listen calls made one after another, each returning before the next
LoopListenAlone ==
    /\ ListenReturned
    /\ LoopListen

LoopAloneNext ==
    \/ LoopListenAlone
    \/ LoopListenStart
    \/ LoopStopListening
    \/ ListenLoopTest
    \/ ListenLoopRx
    \/ ListenLoopProcessLast
    \/ LoopPeerSend
    \/ RegAckTaskRun
    \/ RegClearTxLog

SpecLoopAlone == RegInit /\ [][LoopAloneNext]_vars

\* Listen, StopListening, Listen, one call at a time: two goroutines poll
C34_StopListenReached ==
    /\ ListenReturned
    /\ rxListening
    /\ PollingLoops = 2

\* a Listen on a listening Receiver leaves the single goroutine alone
C34_SingleLoopReached ==
    /\ rxLastOp = "listen"
    /\ rxListening
    /\ PollingLoops = 1
    /\ rxLoops.rx = 1

----------------------------------------------------------------------------
(* Listen called while Receiver.StartPairing is in progress (SpecDuring):  *)
(* the specification of SpecWait with Listen allowed at any moment         *)

\* the application calls Listen from a second goroutine, whatever the first is doing
DuringListen ==
    /\ rxListening \/ LoopCount + rxLoops.set < MaxLoops
    /\ Listen
    /\ UNCHANGED <<codecVars, otherVars, txVars, envVars>>

\* a call that found the flag clear goes on, whatever was called meanwhile
DuringListenStart ==
    /\ ListenStart
    /\ UNCHANGED <<codecVars, otherVars, txVars, envVars>>

\* the first goroutine stops the listening, whatever the second is doing
DuringStopListening ==
    /\ rxListening
    /\ rxPair.pc = "idle"
    /\ StopListening
    /\ UNCHANGED <<codecVars, otherVars, txVars, envVars>>

\* the first goroutine calls StartPairing, whatever the second is doing
DuringStartPairing ==
    /\ rxRecv.pc = "idle"
    /\ ReceiverStartPairing
    /\ UNCHANGED <<codecVars, otherVars, txVars, envVars>>

DuringNext ==
    \/ DuringListen
    \/ DuringListenStart
    \/ DuringStopListening
    \/ WaitPeerSend
    \/ ListenLoopTest
    \/ ListenLoopRx
    \/ ListenLoopProcess
    \/ DuringStartPairing
    \/ WaitPairingPoll
    \/ WaitPairingProcess
    \/ WaitPairingCheck
    \/ WaitPairingReturn
    \/ WaitPairingDeadline
    \/ RegClearTxLog

SpecDuring == RegInit /\ [][DuringNext]_vars

\* StartPairing has returned on a Receiver that was not listening when it was
\* called, and the last thing the application did since the call began is a
\* Listen that has returned
ListenSincePairing ==
    /\ rxPair.pc = "idle"
    /\ rxPair.res # "none"
    /\ ~rxPair.was
    /\ rxLastOp = "listen"
    /\ ListenReturned

\* C35: a Listen made while StartPairing is in progress on a Receiver that
\* was not listening is not lost: once StartPairing has returned the
\* listening flag is true and a polling goroutine is running
C35_ListenNotLost ==
    ListenSincePairing => rxListening /\ LoopCount >= 1

\* the Listen read the flag as clear before StartPairing set it and goes on
\* while StartPairing, which found the Receiver not listening, is in progress
C35_ListenRaceReached ==
    /\ rxPair.pc # "idle"
    /\ ~rxPair.was
    /\ rxLoops.set = 1

\* Listen called after StartPairing has returned starts the goroutine
C35_ListenAfterReached ==
    /\ ListenSincePairing
    /\ rxPair.res = "Timeout"
    /\ rxListening
    /\ LoopCount = 1

----------------------------------------------------------------------------
(* The Receiver's mutex and the accesses to pairedDevices and callbacks    *)
(* (SpecLock): every public operation, with the statements that lock,      *)
(* unlock, read or write the two maps recorded in program order            *)

Accesses == {"reg.read", "reg.write", "cb.read", "cb.write"}

\* r.mu.Lock(); a read of pairedDevices; r.mu.Unlock()
LockedRead == <<"Lock", "reg.read", "Unlock">>

\* ProcessPacket: Lock, the lookup of the sender, the case's writes to the
\* registry and its Devices, the lookup of the callback, the deferred Unlock
ProcessAccess(pkt) ==
    LET paired == pkt.SenderID \in DOMAIN rxReg
    IN  <<"Lock", "reg.read">>
        \o (IF pkt.Type = PacketTypePairing /\ PairingAccepted(pkt) THEN <<"reg.write">>
            ELSE IF pkt.Type = PacketTypeHeartbeat /\ paired THEN <<"reg.write">>
            ELSE IF pkt.Type = PacketTypeData /\ paired /\ pkt.HasPayload
            THEN <<"reg.write", "cb.read">>
            ELSE <<>>)
        \o (IF CallbackHangs(pkt) THEN <<>> ELSE <<"Unlock">>)

\* CleanupDeadDevices: Lock, the range over the registry, the deletes, Unlock
CleanupAccess ==
    <<"Lock", "reg.read">>
    \o (IF DOMAIN EvictStale(rxReg, now) # DOMAIN rxReg THEN <<"reg.write">> ELSE <<>>)
    \o <<"Unlock">>

\* ReceiveData's first statement: if len(r.pairedDevices) == 0, before any Lock
ReceiveDataEntryAccess == <<"reg.read">>

\* Receiver.GetPairedDeviceIDs(): every key of the registry
GetPairedDeviceIDs == DOMAIN rxReg

\* the identities of the Devices GetPairedDevices returns
PairedDeviceSet == {id \in DOMAIN rxReg : rxReg[id].IsPaired}

\* Receiver.IsPairedDeviceConnected(): some Device of the registry IsAlive()
IsPairedDeviceConnected ==
    \E id \in DOMAIN rxReg : (now - rxReg[id].LastSeen) < DeviceTimeout

\* the operation, its accesses and its result go into the history
Accessed(op, trace, res) ==
    /\ rxAccess' = [op |-> op, trace |-> trace, res |-> res]
    /\ UNCHANGED <<txGo, rxAccepted, rxBeat, ringVars>>

LockBuffers ==
    {EncodePacket(Packet(TxId, PacketTypePairing, <<0, 0>>, TRUE, PutUint32(TxKey) \o PutUint32(rxId))),
     EncodePacket(Packet(TxId, PacketTypeData, <<5, 0>>, TRUE, <<1, 2, 3>>))}

LockPeerSend ==
    /\ rxListening \/ rxRecv.pc # "idle" \/ rxPair.pc # "idle"
    /\ InFlight < MaxQueue
    /\ rxRecv.pc # "idle" => Len(rxRecv.got) + Len(rxRxQ) < MaxInject
    /\ rxPair.pc # "idle" => Len(rxPair.got) + Len(rxRxQ) < MaxInject
    /\ \E data \in LockBuffers : rxRxQ' = Append(rxRxQ, data)
    /\ UNCHANGED <<rxId, rxReg, rxListening, rxLog, rxAcks, taskOn, taskWake, rxLastOp, rxPre, appVars>>
    /\ UNCHANGED <<codecVars, otherVars, txVars, envVars>>

\* the application registers its callback before it does anything else
LockRegisterCallback ==
    /\ rxAccess.op = "none"
    /\ rxCallback = "none"
    /\ RegisterCallback("plain")
    /\ Accessed("RegisterCallback", <<"Lock", "cb.write", "Unlock">>, FALSE)
    /\ UNCHANGED <<codecVars, txVars, envVars>>

LockListen ==
    /\ rxCallback # "none"
    /\ ~rxListening
    /\ rxLoops = NoLoops
    /\ rxPair.pc = "idle"
    /\ Listen
    /\ UNCHANGED <<codecVars, otherVars, txVars, envVars>>

\* the rest of Listen touches neither map
LockListenStart ==
    /\ ListenStart
    /\ UNCHANGED <<codecVars, otherVars, txVars, envVars>>

\* the polling goroutine hands its packet to ProcessPacket
LockLoopProcess ==
    /\ \E k \in DOMAIN rxLoops.got :
          /\ LoopProcess(k)
          /\ Accessed("ProcessPacket", ProcessAccess(DecodePacket(rxLoops.got[k])), FALSE)
    /\ UNCHANGED rxLast
    /\ UNCHANGED <<codecVars, txVars, envVars>>

\* the queries take the mutex, read the registry and change nothing
LockIsPaired ==
    /\ ~rxBlocked
    /\ \E id \in {TxId, OtherId} : Accessed("IsPaired", LockedRead, IsPaired(id))
    /\ UNCHANGED <<codecVars, txVars, rxVars, envVars>>

LockGetPairedDeviceIDs ==
    /\ ~rxBlocked
    /\ Accessed("GetPairedDeviceIDs", LockedRead, GetPairedDeviceIDs # {})
    /\ UNCHANGED <<codecVars, txVars, rxVars, envVars>>

LockIsPairedDeviceConnected ==
    /\ ~rxBlocked
    /\ Accessed("IsPairedDeviceConnected", LockedRead, IsPairedDeviceConnected)
    /\ UNCHANGED <<codecVars, txVars, rxVars, envVars>>

LockGetPairedDevices ==
    /\ GetPairedDevices
    /\ Accessed("GetPairedDevices", LockedRead, PairedDeviceSet # {})
    /\ UNCHANGED <<codecVars, txVars, envVars>>

LockCleanupDeadDevices ==
    /\ CleanupDeadDevices
    /\ Accessed("CleanupDeadDevices", CleanupAccess, FALSE)
    /\ UNCHANGED <<rxId, rxListening, rxLog, rxRxQ, rxAcks, taskOn, taskWake, callVars>>
    /\ UNCHANGED <<codecVars, txVars, envVars>>

\* Receiver.StartPairing: the entry touches neither map
LockStartPairing ==
    /\ rxCallback # "none"
    /\ rxRecv.pc = "idle"
    /\ rxLoops = NoLoops
    /\ ReceiverStartPairing
    /\ Accessed("StartPairing", <<>>, FALSE)
    /\ UNCHANGED <<codecVars, txVars, envVars>>

\* one turn of StartPairing's loop: ReceivePacket, then ProcessPacket for a
\* Pairing packet, then the locked read of len(r.pairedDevices)
LockPairingPoll ==
    /\ ReceiverPairingPoll
    /\ Accessed("StartPairing", <<>>, FALSE)
    /\ UNCHANGED <<codecVars, txVars, envVars>>

LockPairingProcess ==
    /\ ReceiverPairingProcess
    /\ Accessed("StartPairing", ProcessAccess(DecodePacket(rxPair.cur)), FALSE)
    /\ UNCHANGED <<codecVars, txVars, envVars>>

LockPairingCheck ==
    /\ ReceiverPairingCheck
    /\ Accessed("StartPairing", LockedRead, FALSE)
    /\ UNCHANGED <<codecVars, txVars, envVars>>

\* the return writes r.isListening with the mutex released
LockPairingReturn ==
    /\ ReceiverPairingReturn
    /\ Accessed("StartPairing", <<>>, FALSE)
    /\ UNCHANGED <<codecVars, txVars, envVars>>

LockPairingDeadline ==
    /\ ReceiverPairingDeadline
    /\ Accessed("StartPairing", <<>>, FALSE)
    /\ UNCHANGED <<codecVars, txVars, envVars>>

\* Receiver.ReceiveData, called while the polling goroutine may be running
LockReceiveData ==
    /\ rxCallback # "none"
    /\ rxPair.pc = "idle"
    /\ ReceiveData
    /\ Accessed("ReceiveData", ReceiveDataEntryAccess, DOMAIN rxReg = {})
    /\ UNCHANGED <<codecVars, txVars, envVars>>

\* one turn of ReceiveData's loop: ReceivePacket, then ProcessPacket, then for
\* a Data packet the locked lookup of the sender
LockRecvPoll ==
    /\ RecvPoll
    /\ Accessed("ReceiveData", <<>>, FALSE)
    /\ UNCHANGED <<codecVars, txVars, envVars>>

LockRecvProcess ==
    /\ RecvProcess
    /\ Accessed("ReceiveData", ProcessAccess(DecodePacket(rxRecv.cur)), FALSE)
    /\ UNCHANGED <<codecVars, txVars, envVars>>

LockRecvLookup ==
    /\ RecvLookup
    /\ Accessed("ReceiveData", LockedRead, FALSE)
    /\ UNCHANGED <<codecVars, txVars, envVars>>

LockRecvDeadline ==
    /\ RecvDeadline
    /\ Accessed("ReceiveData", <<>>, FALSE)
    /\ UNCHANGED <<codecVars, txVars, envVars>>

LockNext ==
    \/ LockPeerSend
    \/ LockRegisterCallback
    \/ LockListen
    \/ LockListenStart
    \/ ListenLoopTest
    \/ ListenLoopRx
    \/ LockLoopProcess
    \/ LockIsPaired
    \/ LockGetPairedDeviceIDs
    \/ LockIsPairedDeviceConnected
    \/ LockGetPairedDevices
    \/ LockCleanupDeadDevices
    \/ LockStartPairing
    \/ LockPairingPoll
    \/ LockPairingProcess
    \/ LockPairingCheck
    \/ LockPairingReturn
    \/ LockPairingDeadline
    \/ LockReceiveData
    \/ LockRecvPoll
    \/ LockRecvProcess
    \/ LockRecvLookup
    \/ LockRecvDeadline
    \/ RegAckTaskRun
    \/ RegClearTxLog

SpecLock == RegInit /\ [][LockNext]_vars

\* C36: every read and write of the device registry and of the callback
\* table is made with the Receiver's mutex held, in every public operation
C36_RegistryUnderLock ==
    \A k \in DOMAIN rxAccess.trace :
        rxAccess.trace[k] \in Accesses => LockedAt(rxAccess.trace, k)

\* ProcessPacket writes the registry between Lock and Unlock
C36_LockedWriteReached ==
    /\ rxAccess.op = "ProcessPacket"
    /\ \E k \in DOMAIN rxAccess.trace :
          rxAccess.trace[k] = "reg.write" /\ LockedAt(rxAccess.trace, k)

----------------------------------------------------------------------------
(* Claims about the registry's paired flags, checked under SpecReg         *)

\* the identities a query can be made for
QueryIds == RegPeers \cup {rxId}

\* C37: every Device stored in the registry has its paired flag set, so
\* IsPaired(id) is true exactly for the keys of the registry, and
\* GetPairedDeviceIDs, GetPairedDevices and IsPaired agree on the set of
\* paired devices
C37_RegistryInvariant ==
    /\ \A id \in DOMAIN rxReg : rxReg[id].IsPaired
    /\ \A id \in QueryIds : IsPaired(id) <=> id \in DOMAIN rxReg
    /\ GetPairedDeviceIDs = PairedDeviceSet
    /\ PairedDeviceSet = {id \in QueryIds : IsPaired(id)}

\* CleanupDeadDevices has removed one of two paired devices and kept the other
C37_Witness ==
    /\ rxLastOp = "cleanup"
    /\ Cardinality(DOMAIN rxPre.reg) = 2
    /\ Cardinality(DOMAIN rxReg) = 1
    /\ \E id \in DOMAIN rxReg : IsPaired(id)
    /\ \E id \in DOMAIN rxPre.reg : ~IsPaired(id)

----------------------------------------------------------------------------
(* Claims about what makes Receiver.StartPairing succeed, checked under    *)
(* SpecWait                                                                *)

\* the call processed a Pairing packet addressed to this receiver
OwnRequestProcessed(got) ==
    \E k \in DOMAIN got :
        /\ got[k].processed
        /\ PairingAccepted(DecodePacket(got[k].data))

\* C38: Receiver.StartPairing returns success only if during the call it
\* processed a Pairing packet addressed to this receiver's own identity; with
\* a device already in the registry, a Pairing packet addressed to another
\* receiver does not make it return success
C38_SuccessNeedsOwnRequest ==
    (rxPair.pc = "idle" /\ rxPair.res = "ok") => OwnRequestProcessed(rxPair.got)

\* with an empty registry a request addressed to another receiver is
\* processed and the call goes on to its deadline
C38_OtherTargetTimeoutReached ==
    /\ rxPair.pc = "idle"
    /\ rxPair.res = "Timeout"
    /\ rxReg = <<>>
    /\ \E k \in DOMAIN rxPair.got :
          /\ rxPair.got[k].processed
          /\ ~PairingAccepted(DecodePacket(rxPair.got[k].data))

----------------------------------------------------------------------------
(* SendDataReliable with no attempts allowed (SpecZero): a paired          *)
(* Transmitter, reliable sends with maxRetries -1, 0 and 1, and the plain  *)
(* sends that follow them                                                  *)

ZeroRetries == {-1, 0, 1}

\* a paired Transmitter (the tests set the flag directly); the counter is
\* past the pairing request, or at its last value before it wraps
ZeroInit ==
    /\ CodecOff
    /\ RxOff
    /\ EnvOff
    /\ OtherOff
    /\ txPaired = TRUE
    /\ txSeq \in {SeqAfterPairing, U32(65535, 65535)}
    /\ txReceiver = RxId
    /\ txKey = TxKey
    /\ txLog = <<>>
    /\ txRxQ = <<>>
    /\ txOp = IdleOp
    /\ txRes = "none"
    /\ txCall = NoCall
    /\ txTag = <<>>
    /\ txRcvd = <<>>

ZeroSendDataReliable ==
    /\ txCall.n < MaxCalls
    /\ \E maxRetries \in ZeroRetries : SendDataReliable(<<7>>, maxRetries)
    /\ UNCHANGED <<codecVars, otherVars, rxVars, envVars>>

ZeroSendData ==
    /\ txCall.n < MaxCalls
    /\ SendData(<<9>>)
    /\ UNCHANGED <<codecVars, otherVars, rxVars, envVars>>

ZeroNext ==
    \/ ZeroSendDataReliable
    \/ ZeroSendData
    \/ TxReliableTransmit
    \/ TxReliablePoll
    \/ TxReliableWindowEnd
    \/ TxReliableGiveUp
    \/ PeerAir

SpecZero == ZeroInit /\ [][ZeroNext]_vars

\* the last call is a SendDataReliable that passed its checks with maxRetries <= 0
ZeroSend == ReliableSend /\ txCall.maxRetries <= 0

\* the step is the next call, a SendData that hands its frame to the driver
NextSend ==
    /\ txOp.name = "idle"
    /\ txCall'.n = txCall.n + 1
    /\ txCall'.name = "SendData"
    /\ txRes' = "ok"

\* C39: SendDataReliable with maxRetries <= 0 on a paired Transmitter with
\* a valid payload hands nothing to the driver and returns Timeout, and it
\* has consumed one sequence number: the counter is one past the number the
\* call took, and the next frame sent carries that following number
C39_ZeroRetriesConsumeSeq ==
    /\ [](ZeroSend =>
             /\ SentByCall = {}
             /\ txRes \in {"pending", "Timeout"}
             /\ txOp.name = "idle" => txRes = "Timeout"
             /\ IsSucc32(txCall.seq, txSeq))
    /\ [][(ZeroSend /\ NextSend) =>
             /\ Len(txTag') = Len(txTag) + 1
             /\ WireType(txTag'[Len(txTag')].data) = FrameTypeData
             /\ IsSucc32(txCall.seq, WireSeq(txTag'[Len(txTag')].data))]_vars

\* a SendData has followed a reliable send that returned Timeout without a
\* transmission: its frame is the only one sent, and its number is the
\* second after the starting value
C39_Witness ==
    /\ txCall.n = 2
    /\ txCall.name = "SendData"
    /\ txRes = "ok"
    /\ txCall.prev.name = "SendDataReliable"
    /\ txCall.prev.res = "Timeout"
    /\ Len(txTag) = 1
    /\ txTag[1].call = 2
    /\ WireSeq(txTag[1].data) \in {U32(0, SeqAfterPairing.lo + 1), Zero32}

\* a negative maxRetries has returned Timeout without a transmission
C39_NegativeReached ==
    /\ ZeroSend
    /\ txCall.maxRetries = -1
    /\ txRes = "Timeout"
    /\ txLog = <<>>
    /\ IsSucc32(txCall.seq, txSeq)

----------------------------------------------------------------------------
(* The stub driver's ring buffer (SpecRing): InjectRx pushes the frames    *)
(* that Rx pops; the frames are numbered in the order they are pushed      *)

\* how many frames are pushed: enough to overflow the buffer
MaxPushes == 66

\* a push that refuses the new frame when the buffer is full
pushKeepsOldest(frame) ==
    /\ rbData' = IF rbCount = ringCapacity THEN rbData ELSE [rbData EXCEPT ![rbTail] = frame]
    /\ rbTail' = IF rbCount = ringCapacity THEN rbTail ELSE (rbTail + 1) % ringCapacity
    /\ rbCount' = IF rbCount = ringCapacity THEN rbCount ELSE rbCount + 1
    /\ rbHead' = rbHead

\* ringBuffer.push(frame)
push(frame) ==
    LET full == rbCount = ringCapacity
        data == IF full THEN [rbData EXCEPT ![rbTail] = 0] ELSE rbData
        head == IF full THEN (rbHead + 1) % ringCapacity ELSE rbHead
        count == IF full THEN rbCount - 1 ELSE rbCount
    IN  /\ rbData' = [data EXCEPT ![rbTail] = frame]
        /\ rbTail' = (rbTail + 1) % ringCapacity
        /\ rbCount' = count + 1
        /\ rbHead' = head

\* ringBuffer.pop(): what it returns, and the buffer it leaves
popResult == IF rbCount = 0 THEN [frame |-> 0, ok |-> FALSE]
             ELSE [frame |-> rbData[rbHead], ok |-> TRUE]

pop ==
    IF rbCount = 0
    THEN UNCHANGED <<rbData, rbHead, rbTail, rbCount>>
    ELSE /\ rbData' = [rbData EXCEPT ![rbHead] = 0]
         /\ rbHead' = (rbHead + 1) % ringCapacity
         /\ rbCount' = rbCount - 1
         /\ rbTail' = rbTail

\* ringBuffer.snapshot(): the retained frames from the oldest to the newest
snapshot == [i \in 1..rbCount |-> rbData[(rbHead + i - 1) % ringCapacity]]

\* a FIFO of at most ringCapacity entries that drops its oldest entry when full
KeptAfterPush(kept, frame) ==
    IF Len(kept) = ringCapacity THEN Append(Tail(kept), frame) ELSE Append(kept, frame)

\* a driver that is not part of the specification at hand, and a new ring buffer
RingInit ==
    /\ CodecOff
    /\ TxOff
    /\ RxOff
    /\ EnvOff
    /\ txGo = [g \in Goroutines |-> IdleGo]
    /\ TraceOff
    /\ RingOff

\* Driver.InjectRx(frame): rxBuf.push
RingInjectRx ==
    /\ rbPushed < MaxPushes
    /\ push(rbPushed + 1)
    /\ rbPushed' = rbPushed + 1
    /\ rbKept' = KeptAfterPush(rbKept, rbPushed + 1)
    /\ rbOut' = [NoPop EXCEPT !.op = "push"]
    /\ UNCHANGED <<txGo, rxAccepted, rxAccess, rxBeat>>
    /\ UNCHANGED <<codecVars, txVars, rxVars, envVars>>

\* Driver.Rx(timeout): rxBuf.pop, a frame or (on an empty buffer) the timeout
RingRx ==
    /\ pop
    /\ rbOut' = [op |-> "pop", frame |-> popResult.frame, ok |-> popResult.ok,
                 want |-> IF rbKept = <<>> THEN 0 ELSE Head(rbKept)]
    /\ rbKept' = IF rbKept = <<>> THEN rbKept ELSE Tail(rbKept)
    /\ UNCHANGED <<rbPushed, txGo, rxAccepted, rxAccess, rxBeat>>
    /\ UNCHANGED <<codecVars, txVars, rxVars, envVars>>

RingNext ==
    \/ RingInjectRx
    \/ RingRx

SpecRing == RingInit /\ [][RingNext]_vars

\* C40: after any sequence of pushes and pops 0 <= count <= 64, head and
\* tail are within 0..63 with (head + count) mod 64 = tail; pop returns the
\* retained frames in the order they were pushed; a push onto a full buffer
\* discards exactly the oldest frame, so the buffer holds the most recent
\* frames pushed and not popped, 64 at most
C40_RingBuffer ==
    /\ rbCount \in 0..ringCapacity
    /\ rbHead \in 0..(ringCapacity - 1)
    /\ rbTail \in 0..(ringCapacity - 1)
    /\ (rbHead + rbCount) % ringCapacity = rbTail
    /\ snapshot = rbKept
    /\ \A i \in 1..rbCount : snapshot[i] = rbPushed - rbCount + i
    /\ rbOut.op = "pop" =>
          /\ rbOut.ok <=> rbOut.want # 0
          /\ rbOut.frame = rbOut.want
    /\ \A i \in 0..(ringCapacity - 1) :
          rbData[i] # 0 <=> \E k \in 1..rbCount : (rbHead + k - 1) % ringCapacity = i

\* the buffer has overflowed by two frames and the first pop has returned the
\* third frame pushed
C40_Witness ==
    /\ rbPushed = ringCapacity + 2
    /\ rbOut.op = "pop"
    /\ rbOut.ok
    /\ rbOut.frame = 3
    /\ rbCount = ringCapacity - 1
    /\ rbHead = 3
    /\ rbTail = 2

\* a pop on an empty buffer returns nothing
C40_EmptyPopReached ==
    /\ rbOut.op = "pop"
    /\ ~rbOut.ok
    /\ rbCount = 0
    /\ rbPushed > 0

====
